---- MODULE Spec2Model ----
(***************************************************************************)
(* Genetic-algorithm asset-placement optimizer                             *)
(* (backend/python/src/optimization/genetic_optimizer.py, models.py).      *)
(*                                                                         *)
(* Numbers.  Python floats are modelled by fixed-point integers:           *)
(*   - a gene g in [0,1] is the integer g * GeneOne (steps of 1/GeneOne);  *)
(*   - an objective score s in [0,1] is the integer s * ScoreOne;          *)
(*   - a fitness f is the integer f * ScoreOne * WeightOne;                *)
(*   - lengths are kept in half site units, so that the half width and     *)
(*     half length of a footprint are integers; rotations are multiples    *)
(*     of 90 degrees, so every footprint is an axis-aligned rectangle;     *)
(*   - the site boundary is an axis-aligned rectangle, exclusion zones     *)
(*     are axis-aligned rectangles.                                        *)
(* Divisions and square roots round down.                                  *)
(***************************************************************************)
EXTENDS Integers, Sequences, FiniteSets, TLC

VARIABLES
    site,                 \* SiteContext given to the optimizer
    assets_to_place,      \* `assets_to_place` of optimize_layout (None: no such call)
    assets,               \* assets_to_place given to the optimizer
    config,               \* OptimizationConfig
    pc,                   \* position inside optimize()
    population,           \* local `population` of optimize()
    parents,              \* local `parents`
    offspring,            \* local `offspring`
    generation,           \* loop variable `generation`
    convergence_history,  \* local `convergence_history`
    stagnation_count,     \* local `stagnation_count`
    best_ever,            \* local `best_ever` (None before the first generation)
    result,               \* the OptimizationResult returned (None before)
    rng,                  \* state of the process-wide NumPy generator
    runs,                 \* convergence histories of the runs completed before
    placed,               \* the PlacedAsset objects built outside a run
    heap                  \* the Individual objects and gene arrays, by identity

vars == <<site, assets_to_place, assets, config, pc, population, parents, offspring, generation,
          convergence_history, stagnation_count, best_ever, result, rng, runs,
          placed, heap>>

\* Python Optional values: None is the empty sequence, a value v is <<v>>
None == <<>>
Some(v) == <<v>>

-----------------------------------------------------------------------------
(* Units and program constants                                             *)

\* gene value 1.0
GeneOne == 20
\* objective score 1.0
ScoreOne == 1000
\* objective weight 1.0 (weights are given in tenths)
WeightOne == 10
\* fitness value 1.0 == ScoreOne * WeightOne
FitOne == ScoreOne * WeightOne
\* `return 0.5` neutral score
NeutralScore == 500
\* `len(violations) * 0.1`
ViolationPenalty == 1000
\* `fitness += 0.2`
ValidBonus == 2000
\* earthwork: `avg_slope / 15.0`
SlopeCeiling == 15
\* `self.genes_per_asset = 3`
genes_per_asset == 3
\* `tournament_size = 3` and `min(3, len(remaining))`
tournament_size == 3
\* `len(convergence_history) > 10`, `convergence_history[-10:]`
ConvergenceWindow == 10
\* `np.round(individual.genes * 10)`
PatternScale == 10

-----------------------------------------------------------------------------
(* Bounds of the model                                                     *)

\* largest `generations` of a run whose operators all draw freely
MaxGenerations == 2
\* largest number of genes one call of _mutate changes
MaxMutations == 1
\* largest `generate_alternatives`
MaxAlternatives == 2
\* `generations` of the long runs
LongGenerations == 12

\* values np.random.random() takes for a gene of a random individual
GeneSamples == {3, 14}
\* values np.random.normal(0, 0.1) takes (gene steps)
NoiseSamples == {-2, 1}
\* values np.random.random() takes when compared with a rate
UniformSamples == {0, ScoreOne - 1}
\* sampled values of np.random.normal(0, 0.1) in _mutate, in gene units
MutationSamples == {1}

-----------------------------------------------------------------------------
(* Arithmetic helpers                                                      *)

Max2(a, b) == IF a >= b THEN a ELSE b
Min2(a, b) == IF a <= b THEN a ELSE b

RECURSIVE SeqSum(_)
SeqSum(s) == IF s = <<>> THEN 0 ELSE Head(s) + SeqSum(Tail(s))

RECURSIVE SeqMax(_)
SeqMax(s) == IF Len(s) = 1 THEN s[1] ELSE Max2(Head(s), SeqMax(Tail(s)))

RECURSIVE SeqMin(_)
SeqMin(s) == IF Len(s) = 1 THEN s[1] ELSE Min2(Head(s), SeqMin(Tail(s)))

RECURSIVE SqrtSearch(_, _, _)
SqrtSearch(n, lo, hi) ==
    IF lo >= hi THEN lo
    ELSE LET mid == (lo + hi + 1) \div 2
         IN  IF mid * mid <= n THEN SqrtSearch(n, mid, hi)
             ELSE SqrtSearch(n, lo, mid - 1)

\* floor(sqrt(n))
ISqrt(n) == SqrtSearch(n, 0, Min2(n, 46340))

\* Euclidean distance of the offset (dx, dy), in hundredths of the length unit
Dist(dx, dy) == ISqrt(10000 * (dx * dx + dy * dy))

\* Python `min(1.0, num / den)` as a score
Ratio(num, den) == Min2(ScoreOne, (ScoreOne * num) \div den)

-----------------------------------------------------------------------------
(* Geometry adapter: closed axis-aligned rectangles [x0,x1] x [y0,y1]      *)

Rect(x0, y0, x1, y1) == [x0 |-> x0, y0 |-> y0, x1 |-> x1, y1 |-> y1]

\* shapely `a.intersects(b)`: the closed rectangles share a point
Intersects(a, b) ==
    a.x0 <= b.x1 /\ b.x0 <= a.x1 /\ a.y0 <= b.y1 /\ b.y0 <= a.y1

\* the rectangles share interior points
InteriorsOverlap(a, b) ==
    a.x0 < b.x1 /\ b.x0 < a.x1 /\ a.y0 < b.y1 /\ b.y0 < a.y1

\* shapely `outer.contains(inner)` for rectangles of positive area
Contains(outer, inner) ==
    outer.x0 <= inner.x0 /\ inner.x1 <= outer.x1 /\
    outer.y0 <= inner.y0 /\ inner.y1 <= outer.y1

\* gap between the intervals [a0,a1] and [b0,b1] (0 when they meet)
Gap(a0, a1, b0, b1) == Max2(0, Max2(b0 - a1, a0 - b1))

\* shapely `a.distance(b)`, in hundredths of the length unit
RectDistance(a, b) ==
    Dist(Gap(a.x0, a.x1, b.x0, b.x1), Gap(a.y0, a.y1, b.y0, b.y1))

\* distance of point p from the interval [lo, hi]
Clamp(p, lo, hi) == IF p < lo THEN lo - p ELSE IF p > hi THEN p - hi ELSE 0

\* squared distance of point (px, py) from the ring of rectangle r
\* (`boundary.exterior.distance(point)` squared)
RingDistanceSq(r, px, py) ==
    LET dLeft   == (px - r.x0) * (px - r.x0) + Clamp(py, r.y0, r.y1) * Clamp(py, r.y0, r.y1)
        dRight  == (px - r.x1) * (px - r.x1) + Clamp(py, r.y0, r.y1) * Clamp(py, r.y0, r.y1)
        dBottom == (py - r.y0) * (py - r.y0) + Clamp(px, r.x0, r.x1) * Clamp(px, r.x0, r.x1)
        dTop    == (py - r.y1) * (py - r.y1) + Clamp(px, r.x0, r.x1) * Clamp(px, r.x0, r.x1)
    IN  Min2(Min2(dLeft, dRight), Min2(dBottom, dTop))

-----------------------------------------------------------------------------
(* SiteContext and GeneticOptimizer.__init__ / _prepare_site_data          *)
(* A site is [boundary: rectangle in site units, exclusion_zones: Seq of   *)
(* rectangles, slope_data: None or Some(sequence of rows of degrees),      *)
(* grid_resolution, entry_points: Seq of <<x, y>>].                        *)

\* the boundary polygon in half units
Boundary2 ==
    Rect(2 * site.boundary.x0, 2 * site.boundary.y0,
         2 * site.boundary.x1, 2 * site.boundary.y1)

min_x == Boundary2.x0
min_y == Boundary2.y0
max_x == Boundary2.x1
max_y == Boundary2.y1
width == max_x - min_x
height == max_y - min_y

\* exclusion zones in half units
Zones2 ==
    [i \in 1..Len(site.exclusion_zones) |->
        LET z == site.exclusion_zones[i]
        IN  Rect(2 * z.x0, 2 * z.y0, 2 * z.x1, 2 * z.y1)]

\* `self.prepared_exclusion.intersects(footprint)`
ExclusionIntersects(fp) == \E i \in 1..Len(Zones2) : Intersects(Zones2[i], fp)

\* `self.prepared_buildable.contains(footprint)`: buildable area is the
\* boundary minus the union of the exclusion zones
BuildableContains(fp) ==
    Contains(Boundary2, fp) /\
    \A i \in 1..Len(Zones2) : ~InteriorsOverlap(Zones2[i], fp)

\* `self.site.boundary.centroid`, in half units
site_centroid == <<(min_x + max_x) \div 2, (min_y + max_y) \div 2>>

\* `self.entry_point`: first entry point, else the site centroid
entry_point ==
    IF Len(site.entry_points) > 0
    THEN <<2 * site.entry_points[1][1], 2 * site.entry_points[1][2]>>
    ELSE site_centroid

\* stable insertion of `item` into a sequence sorted by descending key `k`
RECURSIVE InsertDesc(_, _)
InsertDesc(sorted, item) ==
    IF sorted = <<>> THEN <<item>>
    ELSE IF Head(sorted).k >= item.k
         THEN <<Head(sorted)>> \o InsertDesc(Tail(sorted), item)
         ELSE <<item>> \o sorted

\* Python's stable sort of [k, v] pairs, largest key first
RECURSIVE SortDesc(_)
SortDesc(pairs) ==
    IF pairs = <<>> THEN <<>>
    ELSE InsertDesc(SortDesc(SubSeq(pairs, 1, Len(pairs) - 1)), pairs[Len(pairs)])

\* `self.assets = sorted(assets_to_place, key=lambda a: -a.priority)`
SortedAssets ==
    LET pairs  == [i \in 1..Len(assets) |-> [k |-> assets[i].priority, v |-> assets[i]]]
        sorted == SortDesc(pairs)
    IN  [i \in 1..Len(sorted) |-> sorted[i].v]

\* `self.total_assets`
total_assets == SeqSum([i \in 1..Len(assets) |-> assets[i].quantity])

\* `self.gene_length`
gene_length == total_assets * genes_per_asset

RECURSIVE Expand(_)
Expand(defs) ==
    IF defs = <<>> THEN <<>>
    ELSE [i \in 1..Head(defs).quantity |-> <<i - 1, Head(defs)>>] \o Expand(Tail(defs))

\* `self.expanded_assets`: (instance number, definition) per asset instance
expanded_assets == Expand(SortedAssets)

-----------------------------------------------------------------------------
(* Chromosome codec: _decode_genes and PlacedAsset                         *)

\* PlacedAsset._calculate_footprint for a rotation that is a multiple of 90
\* degrees: the width x length rectangle centred at the origin, rotated and
\* translated to `position` (half units: the half extents are the full sizes)
CalculateFootprint(definition, position, rotation) ==
    LET quarter == (rotation \div 90) % 2
        hx == IF quarter = 0 THEN definition.width ELSE definition.length
        hy == IF quarter = 0 THEN definition.length ELSE definition.width
    IN  Rect(position[1] - hx, position[2] - hy, position[1] + hx, position[2] + hy)

\* variant of DecodeRotation without the wrap of the step index
DecodeRotationNoWrap(definition, rot_norm) ==
    IF definition.rotation_allowed
    THEN LET rot_step  == definition.rotation_step
             num_steps == 360 \div rot_step
             rot_index == (rot_norm * num_steps) \div GeneOne
         IN  rot_index * rot_step
    ELSE 0

\* the rotation decoded from the rotation gene
DecodeRotation(definition, rot_norm) ==
    IF definition.rotation_allowed
    THEN LET rot_step  == definition.rotation_step
             num_steps == 360 \div rot_step
             rot_index == ((rot_norm * num_steps) \div GeneOne) % num_steps
         IN  rot_index * rot_step
    ELSE 0

\* the placement of the i-th expanded asset (i from 1)
DecodePlacement(genes, i) ==
    LET instance_num == expanded_assets[i][1]
        asset_def    == expanded_assets[i][2]
        base     == (i - 1) * genes_per_asset
        x_norm   == genes[base + 1]
        y_norm   == genes[base + 2]
        rot_norm == genes[base + 3]
        x == min_x + (x_norm * width) \div GeneOne
        y == min_y + (y_norm * height) \div GeneOne
        rotation == DecodeRotation(asset_def, rot_norm)
    IN  [asset_id   |-> <<asset_def.asset_type, instance_num>>,
         asset_type |-> asset_def.asset_type,
         definition |-> asset_def,
         position   |-> <<x, y>>,
         rotation   |-> rotation,
         footprint  |-> CalculateFootprint(asset_def, <<x, y>>, rotation)]

\* GeneticOptimizer._decode_genes
DecodeGenes(genes) == [i \in 1..Len(expanded_assets) |-> DecodePlacement(genes, i)]

-----------------------------------------------------------------------------
(* Constraint checker: _check_constraints                                  *)
(* A violation string is modelled by its tag ("ERROR" / "WARNING"), the    *)
(* rule that produced it and the asset ids it names.                       *)

Violation(severity, rule, ids) == [severity |-> severity, rule |-> rule, ids |-> ids]

\* GeneticOptimizer._get_slope_at_position (None outside the raster)
GetSlopeAtPosition(position) ==
    IF site.slope_data = None THEN None
    ELSE LET col  == (position[1] - min_x) \div (2 * site.grid_resolution)
             row  == (max_y - position[2]) \div (2 * site.grid_resolution)
             rows == Len(site.slope_data[1])
             cols == Len(site.slope_data[1][1])
         IN  IF 0 <= row /\ row < rows /\ 0 <= col /\ col < cols
             THEN Some(site.slope_data[1][row + 1][col + 1])
             ELSE None

\* variant of SetbackViolated that never reports the setback
SetbackUnchecked(placement) == FALSE

\* `self.site.boundary.exterior.distance(footprint.centroid) < min_setback`
SetbackViolated(placement) ==
    LET s == 2 * placement.definition.min_setback
    IN  s > 0 /\
        RingDistanceSq(Boundary2, placement.position[1], placement.position[2]) < s * s

\* the slope at the placement exceeds the asset's maximum
SlopeViolated(placement) ==
    LET slope == GetSlopeAtPosition(placement.position)
    IN  site.slope_data # None /\ slope # None /\ slope[1] > placement.definition.max_slope

\* the per-placement checks of _check_constraints, in the code's order
PlacementViolations(placement) ==
    LET footprint == placement.footprint
        id == <<placement.asset_id>>
    IN  (IF ~Contains(Boundary2, footprint)
         THEN IF ~Intersects(Boundary2, footprint)
              THEN <<Violation("ERROR", "outside", id)>>
              ELSE <<Violation("WARNING", "partially_outside", id)>>
         ELSE <<>>)
        \o
        (IF SetbackViolated(placement)
         THEN <<Violation("ERROR", "setback", id)>> ELSE <<>>)
        \o
        (IF placement.definition.avoid_exclusion_zones /\ Len(Zones2) > 0
            /\ ExclusionIntersects(footprint)
         THEN <<Violation("ERROR", "exclusion", id)>> ELSE <<>>)
        \o
        (IF SlopeViolated(placement)
         THEN <<Violation("WARNING", "slope", id)>> ELSE <<>>)

\* `distance < min_dist` for the footprints of two placements
TooClose(p1, p2) ==
    LET min_dist == 2 * p1.definition.min_distance_to_same
        gx == Gap(p1.footprint.x0, p1.footprint.x1, p2.footprint.x0, p2.footprint.x1)
        gy == Gap(p1.footprint.y0, p1.footprint.y1, p2.footprint.y0, p2.footprint.y1)
    IN  min_dist > 0 /\ gx * gx + gy * gy < min_dist * min_dist

\* variant of Overlaps that compares assets of one type only
SameTypeOverlaps(p1, p2) ==
    p1.asset_type = p2.asset_type /\ Intersects(p1.footprint, p2.footprint)

\* `p1.footprint.intersects(p2.footprint)`
Overlaps(p1, p2) == Intersects(p1.footprint, p2.footprint)

\* variant of PairViolations that reports too close same-type assets as ERROR
PairViolationsStrict(p1, p2) ==
    LET ids == <<p1.asset_id, p2.asset_id>>
    IN  (IF p1.asset_type = p2.asset_type /\ TooClose(p1, p2)
         THEN <<Violation("ERROR", "too_close", ids)>> ELSE <<>>)
        \o
        (IF Overlaps(p1, p2)
         THEN <<Violation("ERROR", "overlap", ids)>> ELSE <<>>)

\* the checks of one pair (i < j) of _check_constraints
PairViolations(p1, p2) ==
    LET ids == <<p1.asset_id, p2.asset_id>>
    IN  (IF p1.asset_type = p2.asset_type /\ TooClose(p1, p2)
         THEN <<Violation("WARNING", "too_close", ids)>> ELSE <<>>)
        \o
        (IF Overlaps(p1, p2)
         THEN <<Violation("ERROR", "overlap", ids)>> ELSE <<>>)

RECURSIVE PlacementLoop(_, _)
PlacementLoop(placements, i) ==
    IF i > Len(placements) THEN <<>>
    ELSE PlacementViolations(placements[i]) \o PlacementLoop(placements, i + 1)

\* the double loop over i, j with `if i >= j: continue`
RECURSIVE PairLoop(_, _, _)
PairLoop(placements, i, j) ==
    IF i > Len(placements) THEN <<>>
    ELSE IF j > Len(placements) THEN PairLoop(placements, i + 1, 1)
    ELSE (IF i >= j THEN <<>> ELSE PairViolations(placements[i], placements[j]))
         \o PairLoop(placements, i, j + 1)

\* GeneticOptimizer._check_constraints
CheckConstraints(placements) ==
    PlacementLoop(placements, 1) \o PairLoop(placements, 1, 1)

\* `"ERROR" in v`
IsError(v) == v.severity = "ERROR"

\* variant of IsValid that lets a WARNING invalidate a layout too
NoViolations(violations) == Len(violations) = 0

\* `len([v for v in violations if "ERROR" in v]) == 0`
IsValid(violations) == Cardinality({i \in 1..Len(violations) : IsError(violations[i])}) = 0

-----------------------------------------------------------------------------
(* Objective evaluator: _calculate_objectives and its five scores          *)

\* `np.sqrt(self.width**2 + self.height**2)`, in hundredths
SiteDiagonal == Dist(width, height)

\* distance between two points, in hundredths
PointDistance(p, q) == Dist(p[1] - q[1], p[2] - q[2])

\* GeneticOptimizer._calculate_earthwork_score
CalculateEarthworkScore(placements) ==
    IF site.slope_data = None THEN NeutralScore
    ELSE LET sampled == {i \in 1..Len(placements) :
                            GetSlopeAtPosition(placements[i].position) # None}
             count == Cardinality(sampled)
             total_slope ==
                 SeqSum([i \in 1..Len(placements) |->
                    IF i \in sampled
                    THEN GetSlopeAtPosition(placements[i].position)[1] ELSE 0])
         IN  IF count = 0 THEN NeutralScore
             ELSE Ratio(total_slope, count * SlopeCeiling)

\* GeneticOptimizer._calculate_cable_length_score
CalculateCableLengthScore(placements) ==
    IF Len(placements) = 0 THEN NeutralScore
    ELSE LET subs == {i \in 1..Len(placements) : placements[i].asset_type = "substation"}
             first == CHOOSE i \in subs : \A j \in subs : i <= j
             reference_point == IF subs # {} THEN placements[first].position
                                ELSE site_centroid
             total_distance ==
                 SeqSum([i \in 1..Len(placements) |->
                    IF placements[i].asset_type # "substation"
                    THEN PointDistance(reference_point, placements[i].position) ELSE 0])
             max_distance == SiteDiagonal * Len(placements)
         IN  IF max_distance > 0 THEN Ratio(total_distance, max_distance)
             ELSE NeutralScore

\* GeneticOptimizer._calculate_road_length_score
CalculateRoadLengthScore(placements) ==
    IF Len(placements) = 0 THEN NeutralScore
    ELSE LET entry == entry_point
             total_distance ==
                 SeqSum([i \in 1..Len(placements) |->
                    IF placements[i].definition.requires_road_access
                    THEN PointDistance(entry, placements[i].position) ELSE 0])
             max_distance == SiteDiagonal * Len(placements)
         IN  IF max_distance > 0 THEN Ratio(total_distance, max_distance)
             ELSE NeutralScore

\* GeneticOptimizer._calculate_compactness_score: the mean distance of the
\* positions from their centroid is (sum of n-fold distances) / n^2
CalculateCompactnessScore(placements) ==
    IF Len(placements) < 2 THEN ScoreOne
    ELSE LET n  == Len(placements)
             sx == SeqSum([i \in 1..n |-> placements[i].position[1]])
             sy == SeqSum([i \in 1..n |-> placements[i].position[2]])
             distances ==
                 [i \in 1..n |-> Dist(n * placements[i].position[1] - sx,
                                      n * placements[i].position[2] - sy)]
             max_distance == SiteDiagonal
         IN  IF max_distance > 0
             THEN ScoreOne - Ratio(2 * SeqSum(distances), n * n * max_distance)
             ELSE NeutralScore

\* GeneticOptimizer._calculate_capacity_score
CalculateCapacityScore(placements) ==
    IF Len(placements) = 0 THEN 0
    ELSE LET valid_placements ==
                 {i \in 1..Len(placements) : BuildableContains(placements[i].footprint)}
         IN  (ScoreOne * Cardinality(valid_placements)) \div Len(placements)

\* GeneticOptimizer._calculate_objectives
CalculateObjectives(placements) ==
    [earthwork    |-> CalculateEarthworkScore(placements),
     cable_length |-> CalculateCableLengthScore(placements),
     road_length  |-> CalculateRoadLengthScore(placements),
     compactness  |-> CalculateCompactnessScore(placements),
     capacity     |-> CalculateCapacityScore(placements)]

-----------------------------------------------------------------------------
(* Individual and _evaluate_individual                                     *)

\* `Individual(genes=genes)`: the dataclass defaults of an unevaluated one
NewIndividual(genes) ==
    [genes |-> genes, fitness |-> 0, objective_scores |-> <<>>,
     constraint_violations |-> <<>>, is_valid |-> FALSE]

\* `scores.get(key, 0.5)`
ScoreGet(scores, key) == IF key \in DOMAIN scores THEN scores[key] ELSE NeutralScore

\* the BALANCED branch: weighted sum over config.objective_weights, cost
\* scores inverted
RECURSIVE WeightedSum(_, _, _)
WeightedSum(weights, scores, keys) ==
    IF keys = {} THEN 0
    ELSE LET key == CHOOSE k \in keys : TRUE
             raw == ScoreGet(scores, key)
             score == IF key \in {"earthwork", "cable_length", "road_length"}
                      THEN ScoreOne - raw ELSE raw
         IN  weights[key] * score + WeightedSum(weights, scores, keys \ {key})

\* the combined score before penalty and bonus (`fitness` at line 270)
CombinedScore(scores) ==
    IF config.objective = "min_earthwork"
    THEN (ScoreOne - ScoreGet(scores, "earthwork")) * WeightOne
    ELSE IF config.objective = "max_capacity"
    THEN ScoreGet(scores, "capacity") * WeightOne
    ELSE IF config.objective = "min_cable_length"
    THEN (ScoreOne - ScoreGet(scores, "cable_length")) * WeightOne
    ELSE WeightedSum(config.objective_weights, scores, DOMAIN config.objective_weights)

\* variant of PenalizedFitness that floors after the bonus
FlooredLast(combined, violations, is_valid) ==
    LET violation_penalty == Len(violations) * ViolationPenalty
        bonus == IF is_valid THEN ValidBonus ELSE 0
    IN  Max2(0, combined - violation_penalty + bonus)

\* penalty, floor and bonus (lines 271-279)
PenalizedFitness(combined, violations, is_valid) ==
    LET violation_penalty == Len(violations) * ViolationPenalty
        floored == Max2(0, combined - violation_penalty)
    IN  IF is_valid THEN floored + ValidBonus ELSE floored

\* GeneticOptimizer._evaluate_individual
EvaluateIndividual(individual) ==
    LET placements == DecodeGenes(individual.genes)
        violations == CheckConstraints(placements)
        is_valid   == IsValid(violations)
        scores     == CalculateObjectives(placements)
    IN  [genes |-> individual.genes,
         fitness |-> PenalizedFitness(CombinedScore(scores), violations, is_valid),
         objective_scores |-> scores,
         constraint_violations |-> violations,
         is_valid |-> is_valid]

\* GeneticOptimizer._evaluate_population
EvaluatePopulation(pop) == [i \in 1..Len(pop) |-> EvaluateIndividual(pop[i])]

-----------------------------------------------------------------------------
(* Evolutionary engine: the stochastic operators, as functions of the      *)
(* values drawn from the random number generator                           *)

\* variant of Clip that leaves the value as it is
NoClip(g) == g

\* `np.clip(g, 0, 1)`
Clip(g) == Max2(0, Min2(GeneOne, g))

\* `int(np.ceil(np.sqrt(n)))`
CeilSqrt(n) == IF ISqrt(n) * ISqrt(n) = n THEN ISqrt(n) ELSE ISqrt(n) + 1

\* the center placement heuristic of _initialize_population; `noise` holds
\* the two np.random.normal(0, 0.1) draws of every asset
CenterGenes(noise) ==
    [g \in 1..gene_length |->
        LET i == (g - 1) \div genes_per_asset
            k == (g - 1) % genes_per_asset
        IN  IF k = 2 THEN 0
            ELSE Clip(GeneOne \div 2 + noise[2 * i + k + 1])]

\* GeneticOptimizer._create_grid_placement
CreateGridPlacement ==
    LET grid_size == CeilSqrt(total_assets)
    IN  [g \in 1..gene_length |->
            LET i == (g - 1) \div genes_per_asset
                k == (g - 1) % genes_per_asset
                row == i \div grid_size
                col == i % grid_size
            IN  IF k = 0 THEN ((2 * col + 1) * GeneOne) \div (2 * grid_size)
                ELSE IF k = 1 THEN ((2 * row + 1) * GeneOne) \div (2 * grid_size)
                ELSE 0]

\* GeneticOptimizer._initialize_population; `random_genes` holds the
\* np.random.random(gene_length) vectors of the population_size - 2 random
\* individuals
InitializePopulation(random_genes, noise) ==
    [i \in 1..Len(random_genes) |-> NewIndividual(random_genes[i])]
    \o <<NewIndividual(CenterGenes(noise))>>
    \o <<NewIndividual(CreateGridPlacement)>>

\* the ordered samples of k distinct positions of a list of length n
\* (`np.random.choice(list, k, replace=False)`)
OrderedSamples(n, k) ==
    {t \in [1..k -> 1..n] : \A a, b \in 1..k : a # b => t[a] # t[b]}

\* `max(tournament, key=lambda i: i.fitness)`: the first of the fittest
FirstMax(seq) ==
    LET best == CHOOSE i \in 1..Len(seq) :
                    /\ \A j \in 1..Len(seq) : seq[j].fitness <= seq[i].fitness
                    /\ \A j \in 1..(i - 1) : seq[j].fitness < seq[i].fitness
    IN  seq[best]

\* the winner of the tournament that drew the positions `sample` of `pool`
TournamentWinner(pool, sample) ==
    FirstMax([a \in 1..Len(sample) |-> pool[sample[a]]])

\* every individual that can win a tournament of size k drawn from `pool`
Winners(pool, k) ==
    {TournamentWinner(pool, t) : t \in OrderedSamples(Len(pool), k)}

\* `np.random.random() < rate`, for the value r drawn
Below(r, rate) == r < rate

\* variant of CrossoverPair whose second child repeats the first
CrossoverPairTwins(parent1, parent2, draw) ==
    IF Below(draw.r, config.crossover_rate)
    THEN LET p0 == draw.points[1]
             p1 == draw.points[2]
             n  == gene_length
             child == NewIndividual(SubSeq(parent1.genes, 1, p0)
                                    \o SubSeq(parent2.genes, p0 + 1, p1)
                                    \o SubSeq(parent1.genes, p1 + 1, n))
         IN  <<child, child>>
    ELSE <<NewIndividual(parent1.genes), NewIndividual(parent2.genes)>>

\* the two children of one parent pair of _crossover; draw.r is the
\* np.random.random() value and draw.points the sorted cut points (from 0)
CrossoverPair(parent1, parent2, draw) ==
    IF Below(draw.r, config.crossover_rate)
    THEN LET p0 == draw.points[1]
             p1 == draw.points[2]
             n  == gene_length
         IN  <<NewIndividual(SubSeq(parent1.genes, 1, p0)
                             \o SubSeq(parent2.genes, p0 + 1, p1)
                             \o SubSeq(parent1.genes, p1 + 1, n)),
               NewIndividual(SubSeq(parent2.genes, 1, p0)
                             \o SubSeq(parent1.genes, p0 + 1, p1)
                             \o SubSeq(parent2.genes, p1 + 1, n))>>
    ELSE <<NewIndividual(parent1.genes), NewIndividual(parent2.genes)>>

\* `np.random.choice(self.gene_length, 2, replace=False)` raises ValueError
\* when fewer than two gene positions exist
CrossoverRaises(draw) == Below(draw.r, config.crossover_rate) /\ gene_length < 2

\* number of parent pairs: `range(0, len(parents) - 1, 2)`
NumPairs(ps) == Len(ps) \div 2

\* GeneticOptimizer._crossover
Crossover(ps, draws) ==
    [c \in 1..(2 * NumPairs(ps)) |->
        LET pair == (c + 1) \div 2
        IN  CrossoverPair(ps[2 * pair - 1], ps[2 * pair], draws[pair])[2 - (c % 2)]]

\* GeneticOptimizer._mutate; plan[i][g] is None when the gene is left alone
\* and Some(noise) when np.random.normal(0, 0.1) is added to it
Mutate(pop, plan) ==
    [i \in 1..Len(pop) |->
        [pop[i] EXCEPT !.genes =
            [g \in 1..gene_length |->
                IF plan[i][g] = None THEN pop[i].genes[g]
                ELSE Clip(pop[i].genes[g] + plan[i][g][1])]]]

\* `combined.sort(key=lambda i: i.fitness, reverse=True)` (stable)
SortByFitness(pop) ==
    LET sorted == SortDesc([i \in 1..Len(pop) |-> [k |-> pop[i].fitness, v |-> pop[i]]])
    IN  [i \in 1..Len(sorted) |-> sorted[i].v]

\* `seq[:n]` and `seq[n:]`
Take(seq, n) == SubSeq(seq, 1, Min2(n, Len(seq)))
Drop(seq, n) == SubSeq(seq, Min2(n, Len(seq)) + 1, Len(seq))

\* variant of Elite that skips the sort: the first elite_size of the pool
UnsortedElite(pop, kids) == Take(pop \o kids, config.elite_size)

\* the elite of _select_survivors: `combined[: self.config.elite_size]`
Elite(pop, kids) == Take(SortByFitness(pop \o kids), config.elite_size)

\* `remaining = combined[self.config.elite_size :]`
Remaining(pop, kids) == Drop(SortByFitness(pop \o kids), config.elite_size)

\* number of tournaments the while loop of _select_survivors runs
NumFills(pop, kids) == Max2(0, config.population_size - Len(Elite(pop, kids)))

\* variant of SelectSurvivors that returns the tournament winners only
SurvivorsWithoutElite(pop, kids, fills) == Take(fills, config.population_size)

\* GeneticOptimizer._select_survivors; `fills` are the tournament winners
SelectSurvivors(pop, kids, fills) ==
    Take(Elite(pop, kids) \o fills, config.population_size)

-----------------------------------------------------------------------------
(* Result extraction: _decode_solution and _generate_alternatives          *)

\* GeneticOptimizer._decode_solution (solution id and times left out)
DecodeSolution(individual, gen) ==
    [placed_assets |-> DecodeGenes(individual.genes),
     fitness_score |-> individual.fitness,
     objective_scores |-> individual.objective_scores,
     constraint_violations |-> individual.constraint_violations,
     is_valid |-> individual.is_valid,
     generation |-> gen]

\* `np.round(x)` of the rational num / den: half rounds to even
RoundHalfEven(num, den) ==
    LET q == num \div den
        r == num % den
    IN  IF 2 * r < den THEN q
        ELSE IF 2 * r > den THEN q + 1
        ELSE IF q % 2 = 0 THEN q ELSE q + 1

\* `tuple(np.round(individual.genes * 10).astype(int))`
Pattern(genes) == [g \in 1..Len(genes) |-> RoundHalfEven(genes[g] * PatternScale, GeneOne)]

\* variant of AlternativesLoop that never consults the patterns seen
RECURSIVE AlternativesNoDedup(_, _, _)
AlternativesNoDedup(rest, seen_patterns, taken) ==
    IF rest = <<>> \/ Len(taken) >= config.generate_alternatives THEN taken
    ELSE AlternativesNoDedup(Tail(rest), seen_patterns, Append(taken, Head(rest)))

\* the loop of _generate_alternatives over `rest`, with the patterns seen
\* and the individuals taken so far
RECURSIVE AlternativesLoop(_, _, _)
AlternativesLoop(rest, seen_patterns, taken) ==
    IF rest = <<>> \/ Len(taken) >= config.generate_alternatives THEN taken
    ELSE LET pattern == Pattern(Head(rest).genes)
         IN  IF pattern \notin seen_patterns
             THEN AlternativesLoop(Tail(rest), seen_patterns \cup {pattern},
                                   Append(taken, Head(rest)))
             ELSE AlternativesLoop(Tail(rest), seen_patterns, taken)

\* variant of AlternativeIndividuals that walks the population as it stands
AlternativesUnsorted(pop) == AlternativesLoop(Drop(pop, 1), {}, <<>>)

\* the individuals _generate_alternatives decodes: `sorted_pop[1:]` filtered
AlternativeIndividuals(pop) == AlternativesLoop(Drop(SortByFitness(pop), 1), {}, <<>>)

\* GeneticOptimizer._generate_alternatives
GenerateAlternatives(pop, gen) ==
    LET taken == AlternativeIndividuals(pop)
    IN  [i \in 1..Len(taken) |-> DecodeSolution(taken[i], gen)]

-----------------------------------------------------------------------------
(* GeneticOptimizer.optimize: the generational driver                      *)

\* `convergence_history[-10:]`
Recent(history) == SubSeq(history, Len(history) - ConvergenceWindow + 1, Len(history))

\* variant of RangeConverged for a loop without the convergence-range test
RangeUnchecked(history) == FALSE

\* variant of RangeConverged that waits for one more recorded value
RangeConvergedLate(history) ==
    /\ Len(history) > ConvergenceWindow + 1
    /\ SeqMax(Recent(history)) - SeqMin(Recent(history)) < config.convergence_threshold

\* the convergence-range stop condition (lines 170-173)
RangeConverged(history) ==
    /\ Len(history) > ConvergenceWindow
    /\ SeqMax(Recent(history)) - SeqMin(Recent(history)) < config.convergence_threshold

\* the stagnation stop condition (lines 167-168)
Stagnated(count) == count >= config.max_stagnation

\* variant of NewBest that takes the snapshot of the first generation only
FirstBestOnly(current_best, best) == best = None

\* `best_ever is None or current_best.fitness > best_ever.fitness`
NewBest(current_best, best) ==
    best = None \/ current_best.fitness > best[1].fitness

\* variant of InitialHistory that records nothing for the initial population
EmptyHistory(pop) == <<>>

\* lines 126-129: the history starts with the best of the initial population
InitialHistory(pop) == <<FirstMax(pop).fitness>>

\* variant of CapReached without the generation cap
CapIgnored(gen) == FALSE

\* `for generation in range(self.config.generations)`: no iteration follows
\* the one numbered gen
CapReached(gen) == gen + 1 >= config.generations

\* lines 118-132 for the values drawn by _initialize_population
StartWith(random_genes, noise) ==
    /\ pc = "start"
    /\ \E pop \in {EvaluatePopulation(InitializePopulation(random_genes, noise))} :
          /\ population' = pop
          /\ convergence_history' = InitialHistory(pop)
    /\ stagnation_count' = 0
    /\ best_ever' = None
    /\ generation' = 0
    /\ pc' = "select"
    /\ UNCHANGED <<site, assets_to_place, assets, config, parents, offspring, result, runs,
                   placed, heap>>

\* lines 118-132: initialize and evaluate the population, start the history
Start ==
    /\ pc = "start"
    /\ \E random_genes \in [1..(config.population_size - 2) -> [1..gene_length -> GeneSamples]],
          noise \in [1..(2 * total_assets) -> NoiseSamples] :
          StartWith(random_genes, noise)
    /\ UNCHANGED rng

\* line 136 for the tournament winners drawn
SelectParentsWith(winners) ==
    /\ pc = "select"
    /\ parents' = winners
    /\ pc' = "crossover"
    /\ UNCHANGED <<site, assets_to_place, assets, config, population, offspring, generation,
                   convergence_history, stagnation_count, best_ever, result, runs,
                   placed, heap>>

\* line 136: _select_parents
SelectParents ==
    /\ pc = "select"
    /\ \E winners \in [1..Len(population) -> Winners(population, tournament_size)] :
          SelectParentsWith(winners)
    /\ UNCHANGED rng

\* the sorted cut points `sorted(np.random.choice(gene_length, 2, replace=False))`
CutPoints == {pts \in (0..(gene_length - 1)) \X (0..(gene_length - 1)) : pts[1] < pts[2]}

\* the values one parent pair can draw in _crossover: the cut points are
\* drawn only when the crossover applies and the draw does not raise
CrossoverDraws ==
    {[r |-> r, points |-> <<0, 0>>] :
        r \in {u \in UniformSamples : ~Below(u, config.crossover_rate) \/ gene_length < 2}}
    \cup
    {[r |-> r, points |-> pts] :
        r \in {u \in UniformSamples : Below(u, config.crossover_rate) /\ gene_length >= 2},
        pts \in CutPoints}

\* line 139 for the values drawn; the ValueError of np.random.choice ends
\* optimize()
CrossoverWith(draws) ==
    /\ pc = "crossover"
    /\ IF \E i \in 1..NumPairs(parents) : CrossoverRaises(draws[i])
       THEN /\ pc' = "raised"
            /\ UNCHANGED offspring
       ELSE /\ pc' = "mutate"
            /\ offspring' = Crossover(parents, draws)
    /\ UNCHANGED <<site, assets_to_place, assets, config, population, parents, generation,
                   convergence_history, stagnation_count, best_ever, result, runs,
                   placed, heap>>

\* line 139: _crossover
CrossoverStep ==
    /\ pc = "crossover"
    /\ \E draws \in [1..NumPairs(parents) -> CrossoverDraws] : CrossoverWith(draws)
    /\ UNCHANGED rng

\* the gene positions of a list of individuals
GenePositions(pop) == (1..Len(pop)) \X (1..gene_length)

\* the plans _mutate can follow: which genes pass `random() < mutation_rate`
\* (at most MaxMutations of them) and the noise each receives
MutationPlans(pop) ==
    LET mutable == {u \in UniformSamples : Below(u, config.mutation_rate)}
        picks == UNION {[1..m -> GenePositions(pop) \X MutationSamples] : m \in 0..MaxMutations}
        ordered == {pk \in picks : \A a, b \in DOMAIN pk :
                        a < b => \/ pk[a][1][1] < pk[b][1][1]
                                 \/ /\ pk[a][1][1] = pk[b][1][1]
                                    /\ pk[a][1][2] < pk[b][1][2]}
        usable == IF mutable = {} THEN {<<>>} ELSE ordered
    IN  {[i \in 1..Len(pop) |-> [g \in 1..gene_length |->
            IF \E a \in DOMAIN pk : pk[a][1] = <<i, g>>
            THEN Some(pk[CHOOSE a \in DOMAIN pk : pk[a][1] = <<i, g>>][2])
            ELSE None]] : pk \in usable}

\* line 142 for the mutation plan drawn
MutateWith(plan) ==
    /\ pc = "mutate"
    /\ offspring' = Mutate(offspring, plan)
    /\ pc' = "evaluate"
    /\ UNCHANGED <<site, assets_to_place, assets, config, population, parents, generation,
                   convergence_history, stagnation_count, best_ever, result, runs,
                   placed, heap>>

\* line 142: _mutate
MutateStep ==
    /\ pc = "mutate"
    /\ \E plan \in MutationPlans(offspring) : MutateWith(plan)
    /\ UNCHANGED rng

\* line 145: _evaluate_population(offspring)
EvaluateStep ==
    /\ pc = "evaluate"
    /\ offspring' = EvaluatePopulation(offspring)
    /\ pc' = "survive"
    /\ UNCHANGED <<site, assets_to_place, assets, config, population, parents, generation,
                   convergence_history, stagnation_count, best_ever, result, rng, runs,
                   placed, heap>>

\* the size of a survivor tournament: `min(3, len(remaining))`
FillSize(remaining) == Min2(tournament_size, Len(remaining))

\* line 148 for the tournament winners drawn
SurviveWith(fills) ==
    /\ pc = "survive"
    /\ population' = SelectSurvivors(population, offspring, fills)
    /\ pc' = "track"
    /\ UNCHANGED <<site, assets_to_place, assets, config, parents, offspring, generation,
                   convergence_history, stagnation_count, best_ever, result, runs,
                   placed, heap>>

\* line 148: _select_survivors
SurviveStep ==
    /\ pc = "survive"
    /\ \E remaining \in {Remaining(population, offspring)} :
          \E fills \in [1..NumFills(population, offspring) ->
                            Winners(remaining, FillSize(remaining))] :
              SurviveWith(fills)
    /\ UNCHANGED rng

\* lines 150-173: track the best, count stagnation, test the stop conditions
TrackStep ==
    /\ pc = "track"
    /\ LET current_best == FirstMax(population)
           history == Append(convergence_history, current_best.fitness)
           improved == NewBest(current_best, best_ever)
           count == IF improved THEN 0 ELSE stagnation_count + 1
           stop == Stagnated(count) \/ RangeConverged(history)
       IN  /\ convergence_history' = history
           /\ best_ever' = IF improved THEN Some(current_best) ELSE best_ever
           /\ stagnation_count' = count
           /\ IF ~stop /\ ~CapReached(generation)
              THEN generation' = generation + 1 /\ pc' = "select"
              ELSE generation' = generation /\ pc' = "finish"
    /\ UNCHANGED <<site, assets_to_place, assets, config, population, parents, offspring, result,
                   rng, runs,
                   placed, heap>>

\* lines 175-192: build the OptimizationResult
Finish ==
    /\ pc = "finish"
    /\ result' = Some([best_solution |-> DecodeSolution(best_ever[1], generation),
                       alternative_solutions |-> GenerateAlternatives(population, generation),
                       convergence_history |-> convergence_history,
                       total_generations |-> generation + 1])
    /\ pc' = "done"
    /\ UNCHANGED <<site, assets_to_place, assets, config, population, parents, offspring, generation,
                   convergence_history, stagnation_count, best_ever, rng, runs,
                   placed, heap>>

-----------------------------------------------------------------------------
(* Inputs: sites, asset definitions and configurations                     *)
(* One site unit is 10 m: the 200 m x 200 m site is 20 x 20 units and the  *)
(* catalog sizes of models.py are divided by 10.                           *)

AssetDefinition(type, w, l, setback, slope, road, quantity, priority) ==
    [asset_type |-> type, width |-> w, length |-> l,
     rotation_allowed |-> TRUE, rotation_step |-> 90,
     min_setback |-> setback, max_slope |-> slope,
     requires_road_access |-> road, min_distance_to_same |-> 0,
     avoid_exclusion_zones |-> TRUE, quantity |-> quantity, priority |-> priority]

\* DEFAULT_ASSET_DEFINITIONS[AssetType.BESS]
Bess == AssetDefinition("bess", 5, 8, 3, 2, TRUE, 1, 10)
\* DEFAULT_ASSET_DEFINITIONS[AssetType.SUBSTATION]
Substation == AssetDefinition("substation", 4, 6, 5, 1, TRUE, 1, 9)
\* DEFAULT_ASSET_DEFINITIONS[AssetType.PARKING]
Parking == AssetDefinition("parking", 3, 5, 1, 5, TRUE, 1, 5)
\* DEFAULT_ASSET_DEFINITIONS[AssetType.INVERTER_PAD], one instance
InverterPad == AssetDefinition("inverter_pad", 1, 1, 1, 3, FALSE, 1, 6)

\* an asset of 250 m x 250 m, larger than the 200 m x 200 m site
Oversized == AssetDefinition("laydown", 25, 25, 1, 5, FALSE, 1, 5)

\* a substation whose 110 m setback no position of the 200 m site satisfies
Unplaceable == [Substation EXCEPT !.min_setback = 11]

\* two 30 m pads without setback that must keep 300 m from each other
SpacedPad ==
    [AssetDefinition("inverter_pad", 3, 3, 0, 3, FALSE, 2, 6)
        EXCEPT !.min_distance_to_same = 30]

\* SiteContext(boundary=<20 x 20 square>): no exclusions, slopes or entry
PlainSite ==
    [boundary |-> Rect(0, 0, 20, 20), exclusion_zones |-> <<>>,
     slope_data |-> None, grid_resolution |-> 1, entry_points |-> <<>>]

\* a boundary polygon of zero area: a 200 m strip without height
FlatSite == [PlainSite EXCEPT !.boundary = Rect(0, 0, 20, 0)]

\* the same site with an entry point in the middle of its left edge
EntrySite == [PlainSite EXCEPT !.entry_points = <<<<0, 10>>>>]

\* the same site with a 2 x 2 slope raster of 10-unit cells, an exclusion
\* zone and an entry point
SlopedSite ==
    [boundary |-> Rect(0, 0, 20, 20), exclusion_zones |-> <<Rect(0, 0, 4, 4)>>,
     slope_data |-> Some(<<<<0, 20>>, <<4, 0>>>>), grid_resolution |-> 10,
     entry_points |-> <<<<0, 10>>>>]

\* the sloped site with every cell steeper than the assets tolerate
SteepSite == [SlopedSite EXCEPT !.slope_data = Some(<<<<3, 20>>, <<4, 3>>>>)]

\* OptimizationConfig() defaults, with a small population
DefaultConfig ==
    [objective |-> "balanced",
     objective_weights |-> [earthwork |-> 4, cable_length |-> 3,
                            road_length |-> 2, compactness |-> 1],
     population_size |-> 3, generations |-> 1,
     mutation_rate |-> 100, crossover_rate |-> 800, elite_size |-> 1,
     convergence_threshold |-> 10, max_stagnation |-> 30,
     random_seed |-> None, generate_alternatives |-> 2]

\* one substation, population of 3: every tournament of _select_parents
\* holds the whole population, so the offspring vary by mutation
MutationRuns ==
    {[site |-> EntrySite, assets |-> <<Substation>>,
      config |-> [DefaultConfig EXCEPT !.generations = g, !.elite_size = 2]] :
        g \in 1..MaxGenerations}
    \cup
    {[site |-> EntrySite, assets |-> <<Substation>>,
      config |-> [DefaultConfig EXCEPT !.elite_size = e, !.generate_alternatives = k]] :
        e \in {0, 1}, k \in 0..MaxAlternatives}

\* one substation, population of 4, one generation: the parents differ and
\* the offspring vary by crossover
CrossoverRuns ==
    {[site |-> EntrySite, assets |-> <<Substation>>,
      config |-> [DefaultConfig EXCEPT !.population_size = 4, !.mutation_rate = 0,
                                       !.elite_size = 2]]}

\* no asset at all
NoAssetRuns ==
    {[site |-> PlainSite, assets |-> <<>>,
      config |-> [DefaultConfig EXCEPT !.generations = g, !.crossover_rate = c]] :
        g \in 1..MaxGenerations, c \in {0, 800}}

\* two assets on the steep site, one generation without mutation
TwoAssetRuns ==
    {[site |-> SteepSite, assets |-> <<Substation, Bess>>,
      config |-> [DefaultConfig EXCEPT !.mutation_rate = 0, !.objective = o]] :
        o \in {"balanced"}}

\* long runs on the steep site without crossover and mutation
LongRuns ==
    {[site |-> SteepSite, assets |-> <<Substation>>,
      config |-> [DefaultConfig EXCEPT !.generations = LongGenerations,
                                       !.mutation_rate = 0, !.crossover_rate = 0,
                                       !.max_stagnation = m]] :
        m \in {2, 30}}

\* one substation on the boundary of zero area, without crossover and mutation
DegenerateRuns ==
    {[site |-> FlatSite, assets |-> <<Substation>>,
      config |-> [DefaultConfig EXCEPT !.mutation_rate = 0, !.crossover_rate = 0]]}

\* the unplaceable substation, one generation with mutation
InfeasibleRuns ==
    {[site |-> EntrySite, assets |-> <<Unplaceable>>, config |-> DefaultConfig]}

\* the whole population is elite: no survivor tournament is held
FullEliteRuns ==
    {[site |-> EntrySite, assets |-> <<Substation>>,
      config |-> [DefaultConfig EXCEPT !.elite_size = 3, !.mutation_rate = 0]]}

\* the inputs of the runs explored
Scenarios ==
    MutationRuns \cup CrossoverRuns \cup NoAssetRuns \cup TwoAssetRuns \cup LongRuns
    \cup DegenerateRuns \cup InfeasibleRuns \cup FullEliteRuns

\* the state after GeneticOptimizer.__init__
Init ==
    /\ \E sc \in Scenarios :
          /\ site = sc.site
          /\ assets = sc.assets
          /\ config = sc.config
    /\ pc = "start"
    /\ population = <<>>
    /\ parents = <<>>
    /\ offspring = <<>>
    /\ generation = 0
    /\ convergence_history = <<>>
    /\ stagnation_count = 0
    /\ best_ever = None
    /\ result = None
    /\ rng = 0
    /\ runs = <<>>
    /\ placed = <<>>
    /\ heap = <<>>
    /\ assets_to_place = None

Next ==
    \/ Start
    \/ SelectParents
    \/ CrossoverStep
    \/ MutateStep
    \/ EvaluateStep
    \/ SurviveStep
    \/ TrackStep
    \/ Finish

Spec == Init /\ [][Next]_vars

-----------------------------------------------------------------------------
(* Seeded runs: the draws come from the process-wide generator that        *)
(* __init__ seeds, and the caller runs the optimizer twice                 *)

\* the generator: a linear congruential sequence over 0..RngModulus - 1
RngModulus == 256
RngMultiplier == 37
RngIncrement == 11
\* np.random.normal(0, 0.1) yields -NoiseSpread..NoiseSpread gene steps
NoiseSpread == 2

\* the state of the generator after one more draw
NextRng(state) == (RngMultiplier * state + RngIncrement) % RngModulus

\* the state of the generator after n more draws
RECURSIVE Skip(_, _)
Skip(state, n) == IF n = 0 THEN state ELSE Skip(NextRng(state), n - 1)

\* np.random.random() read off the state a draw left, in thousandths
RandomValue(state) == (state * ScoreOne) \div RngModulus

\* np.random.random() as a gene
RandomGene(state) == (state * GeneOne) \div RngModulus

\* np.random.normal(0, 0.1) in gene steps
NormalNoise(state) == (state * (2 * NoiseSpread + 1)) \div RngModulus - NoiseSpread

\* k positions drawn one after the other from those still available
RECURSIVE ChoiceLoop(_, _, _)
ChoiceLoop(available, k, state) ==
    IF k = 0 THEN <<>>
    ELSE LET drawn == NextRng(state)
             p == 1 + (drawn * Len(available)) \div RngModulus
         IN  <<available[p]>>
             \o ChoiceLoop(SubSeq(available, 1, p - 1)
                           \o SubSeq(available, p + 1, Len(available)), k - 1, drawn)

\* `np.random.choice(n, k, replace=False)` from `state`, positions from 1
RandomChoice(n, k, state) == ChoiceLoop([i \in 1..n |-> i], k, state)

\* variant of SeedRng that leaves the generator as it is
KeepRng(seed, state) == state

\* lines 66-68: `if random_seed is not None: np.random.seed(random_seed)`
SeedRng(seed, state) == IF seed = None THEN state ELSE seed[1] % RngModulus

\* lines 118-132 with the draws of _initialize_population
SeededStart ==
    /\ pc = "start"
    /\ LET n == (config.population_size - 2) * gene_length
           random_genes ==
               [i \in 1..(config.population_size - 2) |->
                   [g \in 1..gene_length |->
                       RandomGene(Skip(rng, (i - 1) * gene_length + g))]]
           noise == [a \in 1..(2 * total_assets) |-> NormalNoise(Skip(rng, n + a))]
       IN  /\ StartWith(random_genes, noise)
           /\ rng' = Skip(rng, n + 2 * total_assets)

\* the winners of `count` tournaments of size k over `pool`
DrawnWinners(pool, k, count) ==
    [t \in 1..count |->
        TournamentWinner(pool, RandomChoice(Len(pool), k, Skip(rng, k * (t - 1))))]

\* line 136 with the draws of _select_parents
SeededSelectParents ==
    /\ pc = "select"
    /\ SelectParentsWith(DrawnWinners(population, tournament_size, Len(population)))
    /\ rng' = Skip(rng, tournament_size * Len(population))

\* the draws of _crossover for `pairs` parent pairs, and the state they leave
RECURSIVE CrossoverDrawLoop(_, _)
CrossoverDrawLoop(pairs, state) ==
    IF pairs = 0 THEN [draws |-> <<>>, rng |-> state]
    ELSE LET drawn == NextRng(state)
             r == RandomValue(drawn)
             applies == Below(r, config.crossover_rate) /\ gene_length >= 2
             chosen == RandomChoice(gene_length, 2, drawn)
             points == IF applies
                       THEN <<Min2(chosen[1], chosen[2]) - 1, Max2(chosen[1], chosen[2]) - 1>>
                       ELSE <<0, 0>>
             rest == CrossoverDrawLoop(pairs - 1, IF applies THEN Skip(drawn, 2) ELSE drawn)
         IN  [draws |-> <<[r |-> r, points |-> points]>> \o rest.draws, rng |-> rest.rng]

\* line 139 with the draws of _crossover
SeededCrossover ==
    /\ pc = "crossover"
    /\ \E drawn \in {CrossoverDrawLoop(NumPairs(parents), rng)} :
          /\ CrossoverWith(drawn.draws)
          /\ rng' = drawn.rng

\* the draws of _mutate for `count` genes, and the state they leave
RECURSIVE MutationDrawLoop(_, _)
MutationDrawLoop(count, state) ==
    IF count = 0 THEN [picks |-> <<>>, rng |-> state]
    ELSE LET drawn == NextRng(state)
             hit == Below(RandomValue(drawn), config.mutation_rate)
             after == IF hit THEN NextRng(drawn) ELSE drawn
             rest == MutationDrawLoop(count - 1, after)
         IN  [picks |-> <<IF hit THEN Some(NormalNoise(after)) ELSE None>> \o rest.picks,
              rng |-> rest.rng]

\* line 142 with the draws of _mutate
SeededMutate ==
    /\ pc = "mutate"
    /\ \E drawn \in {MutationDrawLoop(Len(offspring) * gene_length, rng)} :
          /\ MutateWith([i \in 1..Len(offspring) |->
                            [g \in 1..gene_length |->
                                drawn.picks[(i - 1) * gene_length + g]]])
          /\ rng' = drawn.rng

\* line 148 with the draws of _select_survivors
SeededSurvive ==
    /\ pc = "survive"
    /\ \E remaining \in {Remaining(population, offspring)} :
          /\ SurviveWith(DrawnWinners(remaining, FillSize(remaining),
                                      NumFills(population, offspring)))
          /\ rng' = Skip(rng, FillSize(remaining) * NumFills(population, offspring))

\* the caller keeps the history of the first run, constructs a second
\* GeneticOptimizer on the same inputs (__init__, lines 56-84) and calls
\* optimize() again
RunAgain ==
    /\ pc = "done"
    /\ runs = <<>>
    /\ runs' = <<result[1].convergence_history>>
    /\ rng' = SeedRng(config.random_seed, rng)
    /\ pc' = "start"
    /\ population' = <<>>
    /\ parents' = <<>>
    /\ offspring' = <<>>
    /\ generation' = 0
    /\ convergence_history' = <<>>
    /\ stagnation_count' = 0
    /\ best_ever' = None
    /\ result' = None
    /\ UNCHANGED <<site, assets_to_place, assets, config, placed, heap>>

\* seeds given to the optimizer and states the generator is found in
SeedSamples == 0..7
AmbientSamples == {5, 130}

\* runs of two generations with a seed or without one
SeededRuns ==
    {[site |-> EntrySite, assets |-> a,
      config |-> [DefaultConfig EXCEPT !.generations = MaxGenerations,
                                       !.population_size = p,
                                       !.mutation_rate = 300,
                                       !.random_seed = seed]] :
        a \in {<<Substation>>, <<Substation, Parking>>},
        p \in {3, 4},
        seed \in {None} \cup {Some(n) : n \in SeedSamples}}

\* the state after the first GeneticOptimizer.__init__
SeededInit ==
    /\ \E sc \in SeededRuns :
          /\ site = sc.site
          /\ assets = sc.assets
          /\ config = sc.config
    /\ \E ambient \in AmbientSamples : rng = SeedRng(config.random_seed, ambient)
    /\ pc = "start"
    /\ population = <<>>
    /\ parents = <<>>
    /\ offspring = <<>>
    /\ generation = 0
    /\ convergence_history = <<>>
    /\ stagnation_count = 0
    /\ best_ever = None
    /\ result = None
    /\ runs = <<>>
    /\ placed = <<>>
    /\ heap = <<>>
    /\ assets_to_place = None

SeededNext ==
    \/ SeededStart
    \/ SeededSelectParents
    \/ SeededCrossover
    \/ SeededMutate
    \/ EvaluateStep
    \/ SeededSurvive
    \/ TrackStep
    \/ Finish
    \/ RunAgain

SpecSeeded == SeededInit /\ [][SeededNext]_vars

-----------------------------------------------------------------------------
(* Seeded runs next to other users of the process-wide generator           *)

\* seeds of the other optimizers constructed in the same process
OtherSeedSamples == {3, 200}

\* another GeneticOptimizer is constructed with a seed while the second run
\* is between its construction and the end of its optimize(): its __init__
\* calls np.random.seed on the generator every instance draws from
OtherInstance ==
    /\ runs # <<>>
    /\ pc \notin {"done", "raised"}
    /\ \E seed \in OtherSeedSamples : rng' = SeedRng(Some(seed), rng)
    /\ UNCHANGED <<site, assets_to_place, assets, config, pc, population, parents, offspring, generation,
                   convergence_history, stagnation_count, best_ever, result, runs,
                   placed, heap>>

\* the caller keeps the history of the first run and calls optimize() again
\* on the same instance: __init__ is not run, the generator is not reseeded
OptimizeAgain ==
    /\ pc = "done"
    /\ runs = <<>>
    /\ runs' = <<result[1].convergence_history>>
    /\ pc' = "start"
    /\ population' = <<>>
    /\ parents' = <<>>
    /\ offspring' = <<>>
    /\ generation' = 0
    /\ convergence_history' = <<>>
    /\ stagnation_count' = 0
    /\ best_ever' = None
    /\ result' = None
    /\ UNCHANGED <<site, assets_to_place, assets, config, rng, placed, heap>>

\* seeded runs of one generation
SharedRuns ==
    {[site |-> EntrySite, assets |-> <<Substation>>,
      config |-> [DefaultConfig EXCEPT !.population_size = p,
                                       !.mutation_rate = 300,
                                       !.random_seed = Some(seed)]] :
        p \in {3, 4}, seed \in SeedSamples}

\* the state after the first GeneticOptimizer.__init__
SharedInit ==
    /\ \E sc \in SharedRuns :
          /\ site = sc.site
          /\ assets = sc.assets
          /\ config = sc.config
    /\ rng = SeedRng(config.random_seed, 0)
    /\ pc = "start"
    /\ population = <<>>
    /\ parents = <<>>
    /\ offspring = <<>>
    /\ generation = 0
    /\ convergence_history = <<>>
    /\ stagnation_count = 0
    /\ best_ever = None
    /\ result = None
    /\ runs = <<>>
    /\ placed = <<>>
    /\ heap = <<>>
    /\ assets_to_place = None

SharedNext ==
    \/ SeededNext
    \/ OtherInstance
    \/ OptimizeAgain

SpecShared == SharedInit /\ [][SharedNext]_vars

-----------------------------------------------------------------------------
(* optimize() over object identities: `heap.objects` holds the Individual  *)
(* objects, whose `genes` field names an array of `heap.arrays`; here      *)
(* population, parents and offspring are lists of object ids.              *)

\* the Individual `id` as a value: its fields with the contents of its array
Deref(id) == [heap.objects[id] EXCEPT !.genes = heap.arrays[@]]

\* a list of references as a list of values
View(ids) == [i \in DOMAIN ids |-> Deref(ids[i])]

\* variant of CopyGenes that hands out the parent's array itself
ShareGenes(arrays, ref) == [arrays |-> arrays, ref |-> ref]

\* `parent.genes.copy()`: a new array with the same contents
CopyGenes(arrays, ref) == [arrays |-> Append(arrays, arrays[ref]), ref |-> Len(arrays) + 1]

\* `_evaluate_individual(individual)` writes the fields of the object
EvaluateInPlace(h, id) ==
    [h EXCEPT !.objects[id] =
        [EvaluateIndividual(NewIndividual(h.arrays[h.objects[id].genes]))
            EXCEPT !.genes = h.objects[id].genes]]

\* `_evaluate_population(ids)`, the first n objects of the list
RECURSIVE EvaluateRefs(_, _, _)
EvaluateRefs(h, ids, n) ==
    IF n = 0 THEN h ELSE EvaluateInPlace(EvaluateRefs(h, ids, n - 1), ids[n])

\* position of the first of the fittest of a list of values
FirstMaxIndex(seq) ==
    CHOOSE i \in 1..Len(seq) :
        /\ \A j \in 1..Len(seq) : seq[j].fitness <= seq[i].fitness
        /\ \A j \in 1..(i - 1) : seq[j].fitness < seq[i].fitness

\* the object that wins the tournament drawn at the positions `sample`
WinnerRef(pool, sample) ==
    pool[sample[FirstMaxIndex([a \in 1..Len(sample) |-> Deref(pool[sample[a]])])]]

\* every object that can win a tournament of size k drawn from `pool`
WinnerRefs(pool, k) == {WinnerRef(pool, t) : t \in OrderedSamples(Len(pool), k)}

\* the objects and arrays _initialize_population creates
AllocatePopulation(pop) ==
    [objects |-> [i \in 1..Len(pop) |-> [pop[i] EXCEPT !.genes = i]],
     arrays  |-> [i \in 1..Len(pop) |-> pop[i].genes]]

\* lines 118-132 over object identities
HeapStart ==
    /\ pc = "start"
    /\ \E g \in [1..(config.population_size - 2) -> GeneSamples] :
          LET random_genes == [i \in DOMAIN g |-> [k \in 1..gene_length |-> g[i]]]
              noise == [a \in 1..(2 * total_assets) |-> 1]
              ids == [i \in 1..config.population_size |-> i]
              h == EvaluateRefs(AllocatePopulation(InitializePopulation(random_genes, noise)),
                                ids, Len(ids))
          IN  /\ heap' = h
              /\ population' = ids
              /\ convergence_history' =
                     InitialHistory([i \in DOMAIN ids |-> h.objects[ids[i]]])
    /\ stagnation_count' = 0
    /\ best_ever' = None
    /\ generation' = 0
    /\ pc' = "select"
    /\ UNCHANGED <<site, assets_to_place, assets, config, parents, offspring, result, rng, runs, placed>>

\* line 136: the parents are the winning objects themselves
HeapSelectParents ==
    /\ pc = "select"
    /\ \E winners \in [1..Len(population) -> WinnerRefs(population, tournament_size)] :
          parents' = winners
    /\ pc' = "crossover"
    /\ UNCHANGED <<site, assets_to_place, assets, config, population, offspring, generation,
                   convergence_history, stagnation_count, best_ever, result, rng, runs,
                   placed, heap>>

\* one parent pair of _crossover: np.concatenate builds new arrays, the
\* else branch copies the parents' arrays; two new Individual objects
CrossoverPairRefs(h, parent1, parent2, draw) ==
    LET crossed == CrossoverPair(Deref(parent1), Deref(parent2), draw)
        first  == IF Below(draw.r, config.crossover_rate)
                  THEN [arrays |-> Append(h.arrays, crossed[1].genes),
                        ref |-> Len(h.arrays) + 1]
                  ELSE CopyGenes(h.arrays, h.objects[parent1].genes)
        second == IF Below(draw.r, config.crossover_rate)
                  THEN [arrays |-> Append(first.arrays, crossed[2].genes),
                        ref |-> Len(first.arrays) + 1]
                  ELSE CopyGenes(first.arrays, h.objects[parent2].genes)
        n == Len(h.objects)
    IN  [heap |-> [objects |-> h.objects \o <<NewIndividual(first.ref),
                                              NewIndividual(second.ref)>>,
                   arrays |-> second.arrays],
         kids |-> <<n + 1, n + 2>>]

\* the first n parent pairs of _crossover
RECURSIVE CrossoverRefs(_, _, _, _)
CrossoverRefs(h, ps, draws, n) ==
    IF n = 0 THEN [heap |-> h, kids |-> <<>>]
    ELSE LET before == CrossoverRefs(h, ps, draws, n - 1)
             pair == CrossoverPairRefs(before.heap, ps[2 * n - 1], ps[2 * n], draws[n])
         IN  [heap |-> pair.heap, kids |-> before.kids \o pair.kids]

\* line 139 over object identities
HeapCrossover ==
    /\ pc = "crossover"
    /\ \E draws \in [1..NumPairs(parents) -> CrossoverDraws] :
          IF \E i \in 1..NumPairs(parents) : CrossoverRaises(draws[i])
          THEN /\ pc' = "raised"
               /\ UNCHANGED <<offspring, heap>>
          ELSE \E made \in {CrossoverRefs(heap, parents, draws, NumPairs(parents))} :
                  /\ pc' = "mutate"
                  /\ offspring' = made.kids
                  /\ heap' = made.heap
    /\ UNCHANGED <<site, assets_to_place, assets, config, population, parents, generation,
                   convergence_history, stagnation_count, best_ever, result, rng, runs,
                   placed>>

\* _mutate on the first n objects of the list: `individual.genes[i] += ...`
\* writes into the array the object refers to
RECURSIVE MutateRefs(_, _, _, _)
MutateRefs(h, ids, plan, n) ==
    IF n = 0 THEN h
    ELSE LET before == MutateRefs(h, ids, plan, n - 1)
             ref == before.objects[ids[n]].genes
         IN  [before EXCEPT !.arrays[ref] =
                 [g \in 1..gene_length |->
                     IF plan[n][g] = None THEN @[g] ELSE Clip(@[g] + plan[n][g][1])]]

\* line 142 over object identities
HeapMutate ==
    /\ pc = "mutate"
    /\ \E plan \in MutationPlans(offspring) :
          heap' = MutateRefs(heap, offspring, plan, Len(offspring))
    /\ pc' = "evaluate"
    /\ UNCHANGED <<site, assets_to_place, assets, config, population, parents, offspring, generation,
                   convergence_history, stagnation_count, best_ever, result, rng, runs,
                   placed>>

\* line 145 over object identities
HeapEvaluate ==
    /\ pc = "evaluate"
    /\ heap' = EvaluateRefs(heap, offspring, Len(offspring))
    /\ pc' = "survive"
    /\ UNCHANGED <<site, assets_to_place, assets, config, population, parents, offspring, generation,
                   convergence_history, stagnation_count, best_ever, result, rng, runs,
                   placed>>

\* `combined.sort(key=lambda i: i.fitness, reverse=True)` on references
SortRefs(ids) ==
    LET sorted == SortDesc([i \in 1..Len(ids) |->
                               [k |-> heap.objects[ids[i]].fitness, v |-> ids[i]]])
    IN  [i \in 1..Len(sorted) |-> sorted[i].v]

\* line 148 over object identities: the survivors are objects of the
\* combined list, the same object as often as it wins
HeapSurvive ==
    /\ pc = "survive"
    /\ \E combined \in {SortRefs(population \o offspring)} :
          LET elite == Take(combined, config.elite_size)
              remaining == Drop(combined, config.elite_size)
              fill_count == Max2(0, config.population_size - Len(elite))
          IN  \E fills \in [1..fill_count -> WinnerRefs(remaining, FillSize(remaining))] :
                  population' = Take(elite \o fills, config.population_size)
    /\ pc' = "track"
    /\ UNCHANGED <<site, assets_to_place, assets, config, parents, offspring, generation,
                   convergence_history, stagnation_count, best_ever, result, rng, runs,
                   placed, heap>>

\* lines 150-173 over object identities: best_ever is a reference
HeapTrack ==
    /\ pc = "track"
    /\ LET best_index == FirstMaxIndex(View(population))
           current_best == Deref(population[best_index])
           history == Append(convergence_history, current_best.fitness)
           improved == best_ever = None \/ NewBest(current_best, Some(Deref(best_ever[1])))
           count == IF improved THEN 0 ELSE stagnation_count + 1
           stop == Stagnated(count) \/ RangeConverged(history)
       IN  /\ convergence_history' = history
           /\ best_ever' = IF improved THEN Some(population[best_index]) ELSE best_ever
           /\ stagnation_count' = count
           /\ IF ~stop /\ ~CapReached(generation)
              THEN generation' = generation + 1 /\ pc' = "select"
              ELSE generation' = generation /\ pc' = "finish"
    /\ UNCHANGED <<site, assets_to_place, assets, config, population, parents, offspring, result,
                   rng, runs, placed, heap>>

\* lines 175-192 over object identities
HeapFinish ==
    /\ pc = "finish"
    /\ result' = Some([best_solution |-> DecodeSolution(Deref(best_ever[1]), generation),
                       alternative_solutions |->
                           GenerateAlternatives(View(population), generation),
                       convergence_history |-> convergence_history,
                       total_generations |-> generation + 1])
    /\ pc' = "done"
    /\ UNCHANGED <<site, assets_to_place, assets, config, population, parents, offspring, generation,
                   convergence_history, stagnation_count, best_ever, rng, runs,
                   placed, heap>>

\* one substation, population of 3, two generations with mutation
HeapRuns ==
    {[site |-> EntrySite, assets |-> <<Substation>>,
      config |-> [DefaultConfig EXCEPT !.generations = 2]]}

\* the state after GeneticOptimizer.__init__: no Individual exists yet
HeapInit ==
    /\ \E sc \in HeapRuns :
          /\ site = sc.site
          /\ assets = sc.assets
          /\ config = sc.config
    /\ pc = "start"
    /\ population = <<>>
    /\ parents = <<>>
    /\ offspring = <<>>
    /\ generation = 0
    /\ convergence_history = <<>>
    /\ stagnation_count = 0
    /\ best_ever = None
    /\ result = None
    /\ rng = 0
    /\ runs = <<>>
    /\ placed = <<>>
    /\ heap = [objects |-> <<>>, arrays |-> <<>>]
    /\ assets_to_place = None

HeapNext ==
    \/ HeapStart
    \/ HeapSelectParents
    \/ HeapCrossover
    \/ HeapMutate
    \/ HeapEvaluate
    \/ HeapSurvive
    \/ HeapTrack
    \/ HeapFinish

SpecHeap == HeapInit /\ [][HeapNext]_vars

-----------------------------------------------------------------------------
(* The evaluation of single layouts: _evaluate_individual applied to gene  *)
(* vectors drawn from EvalGeneSamples                                      *)

\* gene values of the layouts evaluated
EvalGeneSamples == {0, 5, 10, 14}

\* the inputs of the evaluations
EvalScenarios ==
    {[site |-> s, assets |-> a, config |-> [DefaultConfig EXCEPT !.objective = o]] :
        s \in {PlainSite, SlopedSite},
        a \in {<<Substation, Bess>>, <<[InverterPad EXCEPT !.quantity = 2]>>},
        o \in {"balanced", "min_earthwork", "max_capacity", "min_cable_length"}}
    \cup
    {[site |-> PlainSite, assets |-> <<Oversized>>, config |-> DefaultConfig]}
    \cup
    {[site |-> SlopedSite, assets |-> <<SpacedPad>>, config |-> DefaultConfig]}
    \cup
    {[site |-> SlopedSite, assets |-> <<Substation, Bess>>,
      config |-> [DefaultConfig EXCEPT !.objective = "min_road_length"]]}
    \cup
    {[site |-> PlainSite, assets |-> <<Bess, Bess>>, config |-> DefaultConfig]}

EvalInit ==
    /\ \E sc \in EvalScenarios :
          /\ site = sc.site
          /\ assets = sc.assets
          /\ config = sc.config
    /\ pc = "evaluate_one"
    /\ population = <<>>
    /\ parents = <<>>
    /\ offspring = <<>>
    /\ generation = 0
    /\ convergence_history = <<>>
    /\ stagnation_count = 0
    /\ best_ever = None
    /\ result = None
    /\ rng = 0
    /\ runs = <<>>
    /\ placed = <<>>
    /\ heap = <<>>
    /\ assets_to_place = None

\* `self._evaluate_individual(Individual(genes=genes))`
EvaluateOne ==
    /\ pc = "evaluate_one"
    /\ \E genes \in [1..gene_length -> EvalGeneSamples] :
          population' = <<EvaluateIndividual(NewIndividual(genes))>>
    /\ pc' = "evaluated"
    /\ UNCHANGED <<site, assets_to_place, assets, config, parents, offspring, generation,
                   convergence_history, stagnation_count, best_ever, result, rng, runs,
                   placed, heap>>

EvalNext == EvaluateOne

SpecEval == EvalInit /\ [][EvalNext]_vars

-----------------------------------------------------------------------------
(* PlacedAsset objects: built by _decode_genes or constructed directly,    *)
(* and the assignments a mutable dataclass accepts                         *)

\* `PlacedAsset(asset_id, asset_type, definition, position, rotation,
\* footprint)` followed by __post_init__: the footprint is computed only
\* when none is passed in
NewPlacedAsset(asset_id, definition, position, rotation, footprint) ==
    [asset_id   |-> asset_id,
     asset_type |-> definition.asset_type,
     definition |-> definition,
     position   |-> position,
     rotation   |-> rotation,
     footprint  |-> IF footprint = None
                    THEN CalculateFootprint(definition, position, rotation)
                    ELSE footprint[1]]

\* an asset with dimensions.rotation_allowed = False
FixedPad == [InverterPad EXCEPT !.asset_type = "fixed_pad", !.rotation_allowed = FALSE,
                                !.priority = 3]

\* values of the position genes and of the rotation gene decoded
PositionGeneSamples == IF total_assets = 1 THEN {5, 10} ELSE {10}
RotationGeneSamples == 0..GeneOne

\* the gene vectors decoded
DecodeSamples ==
    {[g \in 1..gene_length |->
        IF g % genes_per_asset = 0 THEN rot[g \div genes_per_asset] ELSE xy[g]] :
        rot \in [1..total_assets -> RotationGeneSamples],
        xy \in [1..gene_length -> PositionGeneSamples]}

\* values given to the constructor and assigned to the fields
PositionSamples == {<<4, 4>>, <<10, 10>>}
RotationSamples == {0, 90}
FootprintSamples == {None, Some(Rect(0, 0, 2, 2))}

\* the assets placed
AssetRuns ==
    {[site |-> EntrySite, config |-> DefaultConfig,
      assets |-> <<[Substation EXCEPT !.rotation_allowed = a, !.rotation_step = s]>>] :
        a \in BOOLEAN, s \in {90, 180}}
    \cup
    {[site |-> EntrySite, config |-> DefaultConfig, assets |-> <<Substation, FixedPad>>]}

AssetsInit ==
    /\ \E sc \in AssetRuns :
          /\ site = sc.site
          /\ assets = sc.assets
          /\ config = sc.config
    /\ pc = "placing"
    /\ population = <<>>
    /\ parents = <<>>
    /\ offspring = <<>>
    /\ generation = 0
    /\ convergence_history = <<>>
    /\ stagnation_count = 0
    /\ best_ever = None
    /\ result = None
    /\ rng = 0
    /\ runs = <<>>
    /\ placed = <<>>
    /\ heap = <<>>
    /\ assets_to_place = None

\* `placements = self._decode_genes(individual.genes)`
DecodeOne ==
    /\ pc = "placing"
    /\ \E genes \in DecodeSamples :
          /\ population' = <<NewIndividual(genes)>>
          /\ placed' = DecodeGenes(genes)
    /\ pc' = "decoded"
    /\ UNCHANGED <<site, assets_to_place, assets, config, parents, offspring, generation,
                   convergence_history, stagnation_count, best_ever, result, rng, runs,
                   heap>>

\* `PlacedAsset(..., position=position, rotation=rotation, footprint=footprint)`
ConstructAsset ==
    /\ pc = "placing"
    /\ \E position \in PositionSamples, rotation \in RotationSamples,
          footprint \in FootprintSamples :
          placed' = <<NewPlacedAsset(<<expanded_assets[1][2].asset_type, 1>>,
                                     expanded_assets[1][2], position, rotation, footprint)>>
    /\ pc' = "constructed"
    /\ UNCHANGED <<site, assets_to_place, assets, config, population, parents, offspring, generation,
                   convergence_history, stagnation_count, best_ever, result, rng, runs,
                   heap>>

\* `asset.position = position`: a plain attribute assignment
SetPosition ==
    /\ pc \in {"decoded", "constructed", "assigned"}
    /\ \E i \in DOMAIN placed, position \in PositionSamples :
          placed' = [placed EXCEPT ![i].position = position]
    /\ pc' = "assigned"
    /\ UNCHANGED <<site, assets_to_place, assets, config, population, parents, offspring, generation,
                   convergence_history, stagnation_count, best_ever, result, rng, runs,
                   heap>>

\* `asset.rotation = rotation`: a plain attribute assignment
SetRotation ==
    /\ pc \in {"decoded", "constructed", "assigned"}
    /\ \E i \in DOMAIN placed, rotation \in RotationSamples :
          placed' = [placed EXCEPT ![i].rotation = rotation]
    /\ pc' = "assigned"
    /\ UNCHANGED <<site, assets_to_place, assets, config, population, parents, offspring, generation,
                   convergence_history, stagnation_count, best_ever, result, rng, runs,
                   heap>>

AssetsNext ==
    \/ DecodeOne
    \/ ConstructAsset
    \/ SetPosition
    \/ SetRotation

SpecAssets == AssetsInit /\ [][AssetsNext]_vars

-----------------------------------------------------------------------------
(* Properties of optimize()                                                *)

\* the history never decreases from one entry to the next
NonDecreasing(history) ==
    \A g \in 1..(Len(history) - 1) : history[g + 1] >= history[g]

\* the solutions of the result: the best one, then the alternatives
ReturnedSolutions ==
    IF result = None THEN <<>>
    ELSE <<result[1].best_solution>> \o result[1].alternative_solutions

\* the individuals of the final population that became alternatives
FinalAlternatives == AlternativeIndividuals(population)

\* C1 as stated: in any run the recorded best fitness never decreases from
\* one entry of convergence_history to the next
C1_MonotoneInAnyRun == NonDecreasing(convergence_history)

\* C1: in a run with elite_size >= 1 the recorded best fitness never
\* decreases from one entry of convergence_history to the next, the step
\* from the initial population's best to generation 0 included
C1_MonotoneWithElite ==
    config.elite_size >= 1 => NonDecreasing(convergence_history)

\* a run with elitism ended after two generations: the best improved in the
\* first, and the second bred an offspring worse than the best kept
C1_Witness ==
    /\ pc = "done"
    /\ config.elite_size >= 1
    /\ Len(convergence_history) = 3
    /\ convergence_history[2] > convergence_history[1]
    /\ \E i \in 1..Len(offspring) : offspring[i].fitness < convergence_history[3]

\* C3: every solution returned (the best one and every alternative) has
\* is_valid true exactly when none of its violations is tagged ERROR
C3_ValidIffNoError ==
    \A i \in 1..Len(ReturnedSolutions) :
        LET solution == ReturnedSolutions[i]
        IN  solution.is_valid <=>
                \A v \in 1..Len(solution.constraint_violations) :
                    solution.constraint_violations[v].severity # "ERROR"

\* a result with an alternative and with a valid solution that carries a
\* WARNING
C3_Witness ==
    /\ result # None
    /\ Len(ReturnedSolutions) >= 2
    /\ \E i \in 1..Len(ReturnedSolutions) :
          /\ ReturnedSolutions[i].is_valid
          /\ ReturnedSolutions[i].constraint_violations # <<>>

\* the loop has run `generation + 1` times when the result is built, within
\* the cap, and one of the three stop conditions holds
StoppedWithinCap ==
    /\ generation < config.generations
    /\ result # None =>
          /\ 1 <= result[1].total_generations
          /\ result[1].total_generations <= config.generations
          /\ result[1].total_generations = Len(convergence_history) - 1
          /\ \/ result[1].total_generations = config.generations
             \/ Stagnated(stagnation_count)
             \/ RangeConverged(convergence_history)

\* the steps optimize() can still take: eight per generation left, and the
\* position inside the current one
StepsLeft ==
    LET position == CASE pc = "start" -> 8
                      [] pc = "select" -> 7
                      [] pc = "crossover" -> 6
                      [] pc = "mutate" -> 5
                      [] pc = "evaluate" -> 4
                      [] pc = "survive" -> 3
                      [] pc = "track" -> 2
                      [] pc = "finish" -> 1
                      [] OTHER -> 0
    IN  8 * (config.generations - generation - 1) + position

\* C4: for generations >= 1, optimize() terminates (every step lowers the
\* bounded number of steps left); the loop runs at least once and at most
\* config.generations times, a stop condition ends it and total_generations
\* is the number of iterations executed
C4_Terminates ==
    /\ [](config.generations >= 1 => StoppedWithinCap /\ StepsLeft >= 0)
    /\ [][config.generations >= 1 => StepsLeft' < StepsLeft]_vars

\* a run stopped by stagnation before the cap
C4_Witness ==
    /\ pc = "done"
    /\ result[1].total_generations < config.generations
    /\ Stagnated(stagnation_count)
    /\ ~RangeConverged(convergence_history)

\* C5 as stated: with zero assets no operator fails, and the result has an
\* empty placed-asset list and is valid
C5_ZeroAssetsSucceed ==
    gene_length = 0 =>
        /\ pc # "raised"
        /\ result # None =>
              /\ result[1].best_solution.placed_assets = <<>>
              /\ result[1].best_solution.is_valid

\* C8: the alternatives returned are at most generate_alternatives and no
\* two of them have the same rounded gene fingerprint
C8_AlternativesDistinct ==
    result # None =>
        /\ Len(result[1].alternative_solutions) <= config.generate_alternatives
        /\ Len(result[1].alternative_solutions) = Len(FinalAlternatives)
        /\ \A i \in 1..Len(FinalAlternatives) :
              result[1].alternative_solutions[i].placed_assets
                  = DecodeGenes(FinalAlternatives[i].genes)
        /\ \A i, j \in 1..Len(FinalAlternatives) :
              i # j => Pattern(FinalAlternatives[i].genes) # Pattern(FinalAlternatives[j].genes)

\* a result whose final population held two candidates with one fingerprint
\* and one of them was returned
C8_Witness ==
    /\ result # None
    /\ Len(result[1].alternative_solutions) >= 1
    /\ \E i, j \in 2..Len(population) :
          /\ i < j
          /\ Pattern(SortByFitness(population)[i].genes)
                 = Pattern(SortByFitness(population)[j].genes)
          /\ Pattern(SortByFitness(population)[i].genes)
                 = Pattern(FinalAlternatives[1].genes)

\* C9 as stated: no alternative returned has the gene vector of the best
\* solution reported
C9_BestExcluded ==
    result # None =>
        \A i \in 1..Len(FinalAlternatives) :
            FinalAlternatives[i].genes # best_ever[1].genes

\* C10 as stated: the history has as many entries as generations executed
C10_OnePerGeneration ==
    result # None =>
        Len(result[1].convergence_history) = result[1].total_generations

\* C10: the history has one entry for the initial population and one per
\* generation executed: len(convergence_history) = total_generations + 1
C10_InitialPlusOnePerGeneration ==
    result # None =>
        Len(result[1].convergence_history) = result[1].total_generations + 1

\* a result of a run of two generations
C10_Witness ==
    /\ result # None
    /\ result[1].total_generations = 2
    /\ Len(result[1].convergence_history) = 3

-----------------------------------------------------------------------------
(* Properties of _evaluate_individual and _check_constraints               *)

\* the individual evaluated by EvaluateOne, its layout and its combined
\* score before penalty and bonus
Evaluated == population[1]
EvaluatedLayout == DecodeGenes(Evaluated.genes)
EvaluatedCombined == CombinedScore(Evaluated.objective_scores)
EvaluatedPenalty == ViolationPenalty * Len(Evaluated.constraint_violations)
EvaluatedBonus == IF Evaluated.is_valid THEN ValidBonus ELSE 0

\* C6 as stated: fitness = max(0, combined - 0.1 * violations + bonus), the
\* floor at 0 applied after the penalty and the validity bonus
C6_FloorAppliedLast ==
    pc = "evaluated" =>
        Evaluated.fitness = Max2(0, EvaluatedCombined - EvaluatedPenalty + EvaluatedBonus)

\* C6: fitness = max(0, combined - 0.1 * violations) + (0.2 if is_valid
\* else 0): the floor at 0 is applied to the penalized score and the validity
\* bonus is added after it
C6_FloorThenBonus ==
    pc = "evaluated" =>
        Evaluated.fitness = Max2(0, EvaluatedCombined - EvaluatedPenalty) + EvaluatedBonus

\* a valid individual whose penalty exceeds its combined score
C6_Witness ==
    /\ pc = "evaluated"
    /\ Evaluated.is_valid
    /\ EvaluatedCombined < EvaluatedPenalty

\* C7: whenever the footprints of two placed assets intersect, whatever
\* their types, the violations hold an ERROR naming both asset ids and the
\* layout is not valid
C7_OverlapIsError ==
    pc = "evaluated" =>
        \A i, j \in 1..Len(EvaluatedLayout) :
            (i < j /\ Intersects(EvaluatedLayout[i].footprint, EvaluatedLayout[j].footprint))
            => /\ \E v \in 1..Len(Evaluated.constraint_violations) :
                    /\ Evaluated.constraint_violations[v].severity = "ERROR"
                    /\ Evaluated.constraint_violations[v].ids
                           = <<EvaluatedLayout[i].asset_id, EvaluatedLayout[j].asset_id>>
               /\ ~Evaluated.is_valid

\* two assets of different types overlap and the layout has no other ERROR
C7_Witness ==
    /\ pc = "evaluated"
    /\ Len(EvaluatedLayout) = 2
    /\ EvaluatedLayout[1].asset_type # EvaluatedLayout[2].asset_type
    /\ Intersects(EvaluatedLayout[1].footprint, EvaluatedLayout[2].footprint)
    /\ \A v \in 1..Len(Evaluated.constraint_violations) :
          Evaluated.constraint_violations[v].severity = "ERROR"
              => Evaluated.constraint_violations[v].rule = "overlap"

-----------------------------------------------------------------------------
(* Properties of seeded runs                                               *)

\* C2: two runs with the same random seed on the same site, assets and
\* configuration have identical convergence histories, in length and in
\* every value
C2_SameSeedSameHistory ==
    (config.random_seed # None /\ runs # <<>> /\ result # None)
        => result[1].convergence_history = runs[1]

\* the second of two seeded runs has ended and its best improved on the way
C2_Witness ==
    /\ config.random_seed # None
    /\ runs # <<>>
    /\ result # None
    /\ Len(result[1].convergence_history) >= 3
    /\ result[1].convergence_history[3] > result[1].convergence_history[1]

-----------------------------------------------------------------------------
(* Properties of the stop conditions                                       *)

\* the last ConvergenceWindow recorded values of the history differ by less
\* than convergence_threshold
LastTenFlat ==
    /\ Len(convergence_history) >= ConvergenceWindow
    /\ \A a, b \in (Len(convergence_history) - ConvergenceWindow + 1)..Len(convergence_history) :
          convergence_history[a] - convergence_history[b] < config.convergence_threshold

\* C11 as stated: no run goes on past a generation boundary at which at
\* least 10 values are recorded and the last 10 are within the threshold
C11_StopsAtTenValues ==
    (pc = "select" /\ generation >= 1) => ~LastTenFlat

\* C11: no run goes on past a generation boundary at which more than 10
\* values are recorded (the initial one and 10 generations) and the last 10
\* are within the threshold; with exactly 10 recorded the run goes on
C11_StopsAtElevenValues ==
    (pc = "select" /\ generation >= 1) =>
        ~(LastTenFlat /\ Len(convergence_history) > ConvergenceWindow)

\* a run ended by the range condition alone, at the eleventh value recorded
C11_Witness ==
    /\ pc = "done"
    /\ LastTenFlat
    /\ Len(convergence_history) = ConvergenceWindow + 1
    /\ result[1].total_generations < config.generations
    /\ stagnation_count < config.max_stagnation

-----------------------------------------------------------------------------
(* C12: rotation quantization                                              *)

\* the rotation gene of the i-th asset of the gene vector decoded
RotationGene(i) == population[1].genes[i * genes_per_asset]

\* C12: an asset that allows rotation decodes to (floor(gene * steps) mod
\* steps) * rotation_step with steps = 360 / rotation_step, for every gene of
\* [0, 1] including 1 itself, so with a step of 90 the rotation is one of 0,
\* 90, 180 and 270; an asset that disallows rotation decodes to 0
C12_RotationQuantized ==
    pc = "decoded" =>
        \A i \in DOMAIN placed :
            LET dims  == placed[i].definition
                steps == 360 \div dims.rotation_step
                scaled == RotationGene(i) * steps
            IN  IF dims.rotation_allowed
                THEN /\ \E k \in 0..steps :
                           /\ k * GeneOne <= scaled
                           /\ scaled < (k + 1) * GeneOne
                           /\ placed[i].rotation = (k % steps) * dims.rotation_step
                     /\ dims.rotation_step = 90 => placed[i].rotation \in {0, 90, 180, 270}
                ELSE placed[i].rotation = 0

\* a gene of exactly 1 wraps to rotation 0, next to an asset that disallows
\* rotation and carries a non-zero rotation gene
C12_Witness ==
    /\ pc = "decoded"
    /\ \E i, j \in DOMAIN placed :
          /\ placed[i].definition.rotation_allowed
          /\ RotationGene(i) = GeneOne
          /\ placed[i].rotation = 0
          /\ ~placed[j].definition.rotation_allowed
          /\ RotationGene(j) > 0

-----------------------------------------------------------------------------
(* C13: a single asset larger than the site                                *)

\* the layout evaluated holds one asset whose footprint is larger than the
\* site, on a site without exclusion zones and slope data
OversizedLayout ==
    /\ pc = "evaluated"
    /\ site.exclusion_zones = <<>>
    /\ site.slope_data = None
    /\ total_assets = 1
    /\ 2 * expanded_assets[1][2].width > width
    /\ 2 * expanded_assets[1][2].length > height

\* C13: with no exclusion zones, no slope data and a single asset larger than
\* the site, every layout evaluated is invalid and its violation list holds
\* the boundary-containment ERROR
C13_OversizedNeverValid ==
    OversizedLayout =>
        /\ ~Evaluated.is_valid
        /\ \E v \in DOMAIN Evaluated.constraint_violations :
              /\ Evaluated.constraint_violations[v].severity = "ERROR"
              /\ Evaluated.constraint_violations[v].rule = "outside"

-----------------------------------------------------------------------------
(* C14: the road_length score of a site without entry point                *)

\* C14: when the site has no entry point, the road_length score of every
\* non-empty layout is the neutral 0.5, wherever the assets are placed
C14_NoEntryNeutralRoad ==
    (pc = "evaluated" /\ site.entry_points = <<>> /\ total_assets > 0) =>
        Evaluated.objective_scores.road_length = NeutralScore

-----------------------------------------------------------------------------
(* C15: a boundary of zero area                                            *)

\* C15: a site boundary of zero area is rejected before any population is
\* created: no population is initialized or evaluated for it
C15_ZeroAreaRejected ==
    (width * height <= 0) => (population = <<>> /\ result = None)

-----------------------------------------------------------------------------
(* C16: unsatisfiable constraints                                          *)

\* some asset demands a setback that exceeds the distance of every point of
\* the site from the boundary ring: every layout has a setback ERROR
SetbackUnsatisfiable ==
    \E i \in DOMAIN expanded_assets :
        4 * expanded_assets[i][2].min_setback > Min2(width, height)

\* every gene vector decodes to a layout with at least one ERROR
EveryLayoutInvalid ==
    \A genes \in [1..gene_length -> 0..GeneOne] :
        ~IsValid(CheckConstraints(DecodeGenes(genes)))

\* C16: when every possible layout has an ERROR, optimize() does not raise
\* and returns a best solution with is_valid = false and a non-empty
\* violation list
C16_InfeasibleReturnsInvalid ==
    SetbackUnsatisfiable =>
        /\ pc # "raised"
        /\ pc = "done" =>
              /\ ~result[1].best_solution.is_valid
              /\ Len(result[1].best_solution.constraint_violations) > 0
        /\ \A i \in DOMAIN population : ~population[i].is_valid

\* a completed run on a site of positive area where no layout is valid
C16_Witness ==
    /\ pc = "done"
    /\ width * height > 0
    /\ SetbackUnsatisfiable
    /\ ~result[1].best_solution.is_valid
    /\ \E v \in DOMAIN result[1].best_solution.constraint_violations :
          IsError(result[1].best_solution.constraint_violations[v])
    /\ EveryLayoutInvalid

-----------------------------------------------------------------------------
(* C17: the footprint of a PlacedAsset                                     *)

\* C17: the footprint of every PlacedAsset is the oriented rectangle of its
\* current position, rotation and dimensions, however the asset was
\* constructed and after any assignment to its position or rotation
C17_FootprintDerived ==
    \A i \in DOMAIN placed :
        placed[i].footprint =
            CalculateFootprint(placed[i].definition, placed[i].position, placed[i].rotation)

-----------------------------------------------------------------------------
(* C18: the generation field of the best solution                          *)

\* the generation at which best_ever was last replaced: the first loop
\* iteration whose recorded best reaches the maximum of all iterations
\* (history[1] belongs to the initial population, history[g + 2] to
\* generation g)
FoundGeneration(history) ==
    CHOOSE g \in 0..(Len(history) - 2) :
        /\ \A k \in 0..(Len(history) - 2) : history[k + 2] <= history[g + 2]
        /\ \A k \in 0..(g - 1) : history[k + 2] < history[g + 2]

\* C18: the generation field of the best solution is the generation at which
\* the best-ever fitness last strictly improved
C18_GenerationFound ==
    pc = "done" =>
        result[1].best_solution.generation = FoundGeneration(result[1].convergence_history)

-----------------------------------------------------------------------------
(* C19: seeded runs and the shared generator                               *)

\* C19: the convergence history of a seeded optimizer is the same whatever
\* other optimizers are constructed or run in the process meanwhile, and
\* when optimize() is called again on the same instance
C19_IndependentOfOthers ==
    (pc = "done" /\ config.random_seed # None /\ runs # <<>>)
        => convergence_history = runs[1]

-----------------------------------------------------------------------------
(* C20: genotype / phenotype consistency                                   *)

\* the objects a list refers to
Refs(ids) == {ids[i] : i \in DOMAIN ids}

\* the objects already evaluated: the population, the parents drawn from it
\* and the offspring once _evaluate_population has seen them
EvaluatedRefs ==
    Refs(population) \cup Refs(parents)
    \cup (IF pc \in {"mutate", "evaluate"} THEN {} ELSE Refs(offspring))

\* the fields of the object are those its current genes evaluate to
Consistent(id) == Deref(id) = EvaluateIndividual(NewIndividual(Deref(id).genes))

\* no step changes the genes of an object that was evaluated before it
GenesKept ==
    \A id \in EvaluatedRefs :
        heap'.arrays[heap'.objects[id].genes] = heap.arrays[heap.objects[id].genes]

\* C20: every individual of the population carries the fitness, scores,
\* violations and validity flag its current genes evaluate to, and no
\* operator changes the genes of an evaluated individual, even when it occurs
\* several times in the population or is the parent of mutated offspring
C20_GenotypePhenotype ==
    /\ [](\A id \in Refs(population) : Consistent(id))
    /\ [][GenesKept]_vars

\* a generation boundary where one object fills two places of the
\* population and an offspring of the last generation was mutated away from
\* its parent
C20_Witness ==
    /\ pc = "select"
    /\ generation >= 1
    /\ \E i, j \in DOMAIN population : i # j /\ population[i] = population[j]
    /\ \E k \in DOMAIN offspring :
          /\ Deref(offspring[k]).genes # Deref(parents[k]).genes
          /\ parents[k] \in Refs(population)

-----------------------------------------------------------------------------
(* C21: the four hard rules                                                *)

\* one of the four hard rules fires on the layout: a footprint wholly
\* outside the boundary, a centroid closer to the boundary ring than the
\* setback, an exclusion-avoiding footprint on the exclusion union, or two
\* intersecting footprints
HardRuleFires(layout) ==
    \/ \E i \in DOMAIN layout :
          \/ ~Intersects(Boundary2, layout[i].footprint)
          \/ RingDistanceSq(Boundary2, layout[i].position[1], layout[i].position[2])
                 < (2 * layout[i].definition.min_setback) * (2 * layout[i].definition.min_setback)
          \/ /\ layout[i].definition.avoid_exclusion_zones
             /\ \E z \in DOMAIN Zones2 : Intersects(Zones2[z], layout[i].footprint)
    \/ \E i, j \in DOMAIN layout :
          i < j /\ Intersects(layout[i].footprint, layout[j].footprint)

\* C21: a layout is valid exactly when none of the four hard rules fires;
\* partial boundary exit, excessive slope and same-type spacing only add
\* WARNINGs
C21_ValidIffNoHardRule ==
    pc = "evaluated" =>
        /\ Evaluated.is_valid <=> ~HardRuleFires(EvaluatedLayout)
        /\ \A v \in DOMAIN Evaluated.constraint_violations :
              Evaluated.constraint_violations[v].rule
                  \in {"partially_outside", "slope", "too_close"}
              => Evaluated.constraint_violations[v].severity = "WARNING"

\* a valid layout that carries the three kinds of WARNING
C21_Witness ==
    /\ pc = "evaluated"
    /\ Evaluated.is_valid
    /\ \A r \in {"partially_outside", "slope", "too_close"} :
          \E v \in DOMAIN Evaluated.constraint_violations :
              Evaluated.constraint_violations[v].rule = r

-----------------------------------------------------------------------------
(* C22: survivor selection                                                 *)

\* number of places of `seq`, other than `skip`, whose fitness is at most f
AtMost(seq, f, skip) ==
    Cardinality({q \in DOMAIN seq : q # skip /\ seq[q].fitness <= f})

\* `chosen` holds the n fittest of `combined`, best first
HoldsFittest(chosen, combined, n) ==
    \A i \in 1..n :
        /\ \E c \in DOMAIN combined : combined[c] = chosen[i]
        /\ Cardinality({c \in DOMAIN combined :
                            combined[c].fitness > chosen[i].fitness}) < i
        /\ Cardinality({c \in DOMAIN combined :
                            combined[c].fitness >= chosen[i].fitness}) >= i

\* `member` can win a tournament of min(3, len) distinct places of `rest`
CanWinTournament(member, rest) ==
    \E r \in DOMAIN rest :
        /\ rest[r] = member
        /\ AtMost(rest, member.fitness, r) >= Min2(3, Len(rest)) - 1

\* C22: for elite_size <= population_size, _select_survivors returns exactly
\* population_size individuals, the first elite_size of them the fittest of
\* population and offspring, every other one the winner of a tournament of
\* at most 3 individuals of the non-elite remainder
C22_SurvivorsKeepSizeAndElite ==
    [][(pc = "survive" /\ config.elite_size <= config.population_size) =>
          /\ Len(population') = config.population_size
          /\ HoldsFittest(population', population \o offspring, config.elite_size)
          /\ \A i \in (config.elite_size + 1)..config.population_size :
                CanWinTournament(population'[i], Remaining(population, offspring))]_vars

\* survivors of a generation: next to the elite, an offspring that won a
\* tournament although it is less fit than the best
C22_Witness ==
    /\ pc = "track"
    /\ config.elite_size >= 1
    /\ Len(population) = config.population_size
    /\ \E i \in (config.elite_size + 1)..Len(population) :
          /\ \E k \in DOMAIN offspring : offspring[k] = population[i]
          /\ population[i].fitness < population[1].fitness

-----------------------------------------------------------------------------
(* C23: two-point crossover                                                *)

\* the children c1, c2 are the parents g1, g2 with the genes after cut a up
\* to cut b exchanged (cuts counted from 0, a < b)
SwappedBetween(g1, g2, c1, c2, a, b) ==
    \A i \in 1..Len(g1) :
        IF a < i /\ i <= b
        THEN c1[i] = g2[i] /\ c2[i] = g1[i]
        ELSE c1[i] = g1[i] /\ c2[i] = g2[i]

\* C23: for each consecutive parent pair both children have the parents'
\* gene length and are either exact copies of the parents or the parents
\* with one contiguous non-empty index range, between two distinct cut
\* points, exchanged
C23_ComplementarySwap ==
    pc = "mutate" =>
        /\ Len(offspring) = 2 * (Len(parents) \div 2)
        /\ \A k \in 1..(Len(parents) \div 2) :
              LET g1 == parents[2 * k - 1].genes
                  g2 == parents[2 * k].genes
                  c1 == offspring[2 * k - 1].genes
                  c2 == offspring[2 * k].genes
              IN  /\ Len(c1) = Len(g1) /\ Len(c2) = Len(g2)
                  /\ \/ c1 = g1 /\ c2 = g2
                     \/ \E a, b \in 0..(Len(g1) - 1) :
                           a < b /\ SwappedBetween(g1, g2, c1, c2, a, b)

\* a pair of different parents whose children both differ from both parents
C23_Witness ==
    /\ pc = "mutate"
    /\ \E k \in 1..(Len(parents) \div 2) :
          /\ offspring[2 * k - 1].genes \notin {parents[2 * k - 1].genes, parents[2 * k].genes}
          /\ offspring[2 * k].genes \notin {parents[2 * k - 1].genes, parents[2 * k].genes}
    /\ \E k \in 1..(Len(parents) \div 2) :
          /\ parents[2 * k - 1].genes # parents[2 * k].genes
          /\ offspring[2 * k - 1].genes = parents[2 * k - 1].genes
          /\ offspring[2 * k].genes = parents[2 * k].genes

-----------------------------------------------------------------------------
(* C24: shape and range of every gene vector                               *)

\* 3 x (sum of the quantities of the assets given to the optimizer)
ExpectedLength ==
    genes_per_asset * SeqSum([i \in DOMAIN assets |-> assets[i].quantity])

\* the gene vector has the expected length and every gene lies in [0, 1]
WellFormed(genes) ==
    /\ Len(genes) = ExpectedLength
    /\ \A g \in DOMAIN genes : 0 <= genes[g] /\ genes[g] <= GeneOne

\* C24: every individual of the population, of the parents and of the
\* offspring (random, center-seeded, grid-seeded, crossover child, mutated
\* offspring, survivor) has 3 x (sum of asset quantities) genes, each in
\* [0, 1]
C24_GenesWellFormed ==
    /\ \A i \in DOMAIN population : WellFormed(population[i].genes)
    /\ \A i \in DOMAIN parents : WellFormed(parents[i].genes)
    /\ \A i \in DOMAIN offspring : WellFormed(offspring[i].genes)

\* an offspring of a two-asset run with a gene that mutation moved onto the
\* edge of the range: no parent has the value at that index
C24_Witness ==
    /\ pc = "evaluate"
    /\ ExpectedLength = 6
    /\ \E k \in DOMAIN offspring :
          \E g \in DOMAIN offspring[k].genes :
              /\ offspring[k].genes[g] \in {0, GeneOne}
              /\ \A p \in DOMAIN parents : parents[p].genes[g] # offspring[k].genes[g]

-----------------------------------------------------------------------------
(* C25: the MIN_ROAD_LENGTH objective                                      *)

\* C25: with objective MIN_ROAD_LENGTH the combined score before penalty and
\* bonus is 1 - road_length, as MIN_CABLE_LENGTH gives 1 - cable_length
C25_RoadObjectiveUsesRoadScore ==
    (pc = "evaluated" /\ config.objective = "min_road_length") =>
        EvaluatedCombined = (ScoreOne - Evaluated.objective_scores.road_length) * WeightOne

-----------------------------------------------------------------------------
(* C26: the stagnation counter under elitism                               *)

\* the configurations C26 speaks of
ElitistDefaults ==
    /\ config.elite_size >= 1
    /\ config.convergence_threshold > 0
    /\ config.max_stagnation >= ConvergenceWindow

\* C26: with elite_size >= 1, convergence_threshold > 0 and max_stagnation >= 10
\* stagnation_count never exceeds 9, and no run ends through the stagnation
\* condition: a finished run has converged in range or has reached the cap
C26_StagnationBelowWindow ==
    ElitistDefaults =>
        /\ stagnation_count <= ConvergenceWindow - 1
        /\ ~Stagnated(stagnation_count)
        /\ pc \in {"finish", "done"} =>
              \/ RangeConverged(convergence_history)
              \/ CapReached(generation)

\* a run of nine generations without a new best, ended by the range condition
\* before the cap
C26_Witness ==
    /\ ElitistDefaults
    /\ pc = "done"
    /\ stagnation_count = ConvergenceWindow - 1
    /\ RangeConverged(convergence_history)
    /\ ~CapReached(generation)

-----------------------------------------------------------------------------
(* C27: the best-ever snapshot and the recorded history                    *)

\* C27: for elite_size >= 1 the best-ever snapshot, and with it the fitness
\* of the returned best solution, equals the last entry of
\* convergence_history, which is the maximum of the whole history, the
\* entry of the initial population included
C27_BestIsLastAndMax ==
    config.elite_size >= 1 =>
        /\ best_ever # None =>
              /\ best_ever[1].fitness = convergence_history[Len(convergence_history)]
              /\ best_ever[1].fitness = SeqMax(convergence_history)
        /\ result # None =>
              /\ result[1].best_solution.fitness_score
                     = result[1].convergence_history[Len(result[1].convergence_history)]
              /\ result[1].best_solution.fitness_score
                     = SeqMax(result[1].convergence_history)

\* a returned best solution found after the first generation, above the
\* best of the initial population
C27_Witness ==
    /\ config.elite_size >= 1
    /\ pc = "done"
    /\ Len(result[1].convergence_history) >= 3
    /\ result[1].convergence_history[1] < result[1].convergence_history[2]
    /\ result[1].convergence_history[2] < result[1].convergence_history[3]
    /\ result[1].best_solution.fitness_score = result[1].convergence_history[3]

-----------------------------------------------------------------------------
(* C28: the ids of the placed assets                                       *)

\* C28: in every decoded layout the placed-asset ids are pairwise distinct,
\* also for an asset list with two definitions of the same asset type
C28_AssetIdsDistinct ==
    pc = "evaluated" =>
        \A i, j \in 1..Len(EvaluatedLayout) :
            i # j => EvaluatedLayout[i].asset_id # EvaluatedLayout[j].asset_id

-----------------------------------------------------------------------------
(* optimize_layout: the entry point that turns a request into a run        *)
(* A requested entry is a dict with the optional keys "type" and           *)
(* "quantity": [type |-> None | Some(t), quantity |-> None | Some(q)].      *)

\* the members of the enum AssetType
AssetType ==
    {"bess", "substation", "o_and_m", "parking", "laydown", "inverter_pad",
     "transformer_pad", "weather_station", "fence", "access_road"}

\* the catalog DEFAULT_ASSET_DEFINITIONS (sizes in site units, rounded up
\* to one unit where the catalog size is smaller)
DEFAULT_ASSET_DEFINITIONS ==
    [t \in {"bess", "substation", "o_and_m", "parking", "laydown", "inverter_pad",
            "weather_station"} |->
        CASE t = "bess" -> Bess
          [] t = "substation" -> Substation
          [] t = "o_and_m" -> AssetDefinition("o_and_m", 2, 3, 2, 3, TRUE, 1, 7)
          [] t = "parking" -> Parking
          [] t = "laydown" -> AssetDefinition("laydown", 6, 10, 2, 3, TRUE, 1, 4)
          [] t = "inverter_pad" -> [InverterPad EXCEPT !.quantity = 10]
          [] t = "weather_station" ->
                [AssetDefinition("weather_station", 1, 1, 2, 10, FALSE, 2, 3)
                    EXCEPT !.rotation_allowed = FALSE, !.min_distance_to_same = 50]]

\* `asset_dict.get("type", "bess")`
RequestedType(asset_dict) ==
    IF asset_dict.type = None THEN "bess" ELSE asset_dict.type[1]

\* lines 677-693: the definitions appended for the requested entries, in
\* order; an entry whose type has no catalog definition appends nothing
RECURSIVE ConvertAssets(_)
ConvertAssets(requested) ==
    IF requested = <<>> THEN <<>>
    ELSE LET asset_dict == Head(requested)
             asset_type == RequestedType(asset_dict)
             asset_def  ==
                 IF asset_dict.quantity # None
                 THEN [DEFAULT_ASSET_DEFINITIONS[asset_type]
                          EXCEPT !.quantity = asset_dict.quantity[1]]
                 ELSE DEFAULT_ASSET_DEFINITIONS[asset_type]
         IN  IF asset_type \in DOMAIN DEFAULT_ASSET_DEFINITIONS
             THEN <<asset_def>> \o ConvertAssets(Tail(requested))
             ELSE ConvertAssets(Tail(requested))

\* lines 675-701: `asset_defs` for the request, the default solar-site set
\* for a missing or empty one
AssetDefs(requested) ==
    IF requested # None /\ requested[1] # <<>>
    THEN ConvertAssets(requested[1])
    ELSE <<DEFAULT_ASSET_DEFINITIONS["substation"], DEFAULT_ASSET_DEFINITIONS["bess"],
           DEFAULT_ASSET_DEFINITIONS["o_and_m"], DEFAULT_ASSET_DEFINITIONS["parking"]>>

Entry(type, quantity) == [type |-> type, quantity |-> quantity]

\* requests: catalog types with and without a quantity, an entry without a
\* type, types of the enum the catalog does not define, and no request
LayoutRequests ==
    {None,
     Some(<<>>),
     Some(<<Entry(Some("substation"), None)>>),
     Some(<<Entry(None, Some(2))>>),
     Some(<<Entry(Some("substation"), None), Entry(Some("parking"), Some(1))>>),
     Some(<<Entry(Some("substation"), None), Entry(Some("fence"), Some(1))>>),
     Some(<<Entry(Some("transformer_pad"), Some(2)), Entry(Some("parking"), None)>>),
     Some(<<Entry(Some("access_road"), None), Entry(Some("bess"), Some(1)),
            Entry(Some("substation"), Some(1))>>)}

\* the state after optimize_layout has built the site context, the asset
\* definitions and the configuration and has constructed the optimizer:
\* the site has no entry point and the configuration has no seed
LayoutInit ==
    /\ assets_to_place \in LayoutRequests
    /\ site = PlainSite
    /\ assets = AssetDefs(assets_to_place)
    /\ \E p \in {3, 4} : config = [DefaultConfig EXCEPT !.population_size = p]
    /\ \E ambient \in AmbientSamples : rng = SeedRng(config.random_seed, ambient)
    /\ pc = "start"
    /\ population = <<>>
    /\ parents = <<>>
    /\ offspring = <<>>
    /\ generation = 0
    /\ convergence_history = <<>>
    /\ stagnation_count = 0
    /\ best_ever = None
    /\ result = None
    /\ runs = <<>>
    /\ placed = <<>>
    /\ heap = <<>>

\* `optimizer.optimize()` as called by optimize_layout
LayoutNext ==
    \/ SeededStart
    \/ SeededSelectParents
    \/ SeededCrossover
    \/ SeededMutate
    \/ EvaluateStep
    \/ SeededSurvive
    \/ TrackStep
    \/ Finish

SpecLayout == LayoutInit /\ [][LayoutNext]_vars

\* the quantity an entry asks for: its "quantity", and the catalog's (or the
\* dataclass default 1) without one
RequestedQuantity(asset_dict) ==
    IF asset_dict.quantity # None THEN asset_dict.quantity[1]
    ELSE IF RequestedType(asset_dict) \in DOMAIN DEFAULT_ASSET_DEFINITIONS
         THEN DEFAULT_ASSET_DEFINITIONS[RequestedType(asset_dict)].quantity
         ELSE 1

\* the number of assets of type t the request asks for, over all entries
RequestedOfType(t) ==
    SeqSum([k \in 1..Len(assets_to_place[1]) |->
               IF RequestedType(assets_to_place[1][k]) = t
               THEN RequestedQuantity(assets_to_place[1][k]) ELSE 0])

\* the number of placed assets of type t in a solution
PlacedOfType(solution, t) ==
    Cardinality({k \in 1..Len(solution.placed_assets) :
                    solution.placed_assets[k].asset_type = t})

\* C29: for a non-empty request every returned solution holds, for every
\* requested type, exactly the requested number of placed assets: nothing
\* requested is dropped, and the placed assets number the sum of the
\* requested quantities
C29_RequestPlacedInFull ==
    (assets_to_place # None /\ assets_to_place[1] # <<>> /\ result # None) =>
        \A i \in 1..Len(ReturnedSolutions) :
            /\ \A t \in AssetType :
                   PlacedOfType(ReturnedSolutions[i], t) = RequestedOfType(t)
            /\ Len(ReturnedSolutions[i].placed_assets)
                   = SeqSum([k \in 1..Len(assets_to_place[1]) |->
                                RequestedQuantity(assets_to_place[1][k])])

-----------------------------------------------------------------------------
(* C30: the order of the alternatives                                      *)

\* C30: for elite_size >= 1 the alternatives are listed in non-increasing
\* order of fitness and none is fitter than the reported best solution
C30_AlternativesOrdered ==
    (config.elite_size >= 1 /\ result # None) =>
        LET alts == result[1].alternative_solutions
        IN  /\ \A i \in 1..Len(alts) - 1 : alts[i].fitness_score >= alts[i + 1].fitness_score
            /\ \A i \in 1..Len(alts) :
                   alts[i].fitness_score <= result[1].best_solution.fitness_score

\* a result with two alternatives of different fitness, both below the best
C30_Witness ==
    /\ config.elite_size >= 1
    /\ pc = "done"
    /\ Len(result[1].alternative_solutions) = 2
    /\ result[1].alternative_solutions[1].fitness_score
           < result[1].best_solution.fitness_score
    /\ result[1].alternative_solutions[2].fitness_score
           < result[1].alternative_solutions[1].fitness_score

====
